---- MODULE Spec2Model ----
(***************************************************************************)
(* State-machine model of the adaptive WebM player.                        *)
(*                                                                         *)
(*   DashPlayer / AdaptiveWebMStream / AdaptiveWebMFile                    *)
(*       src/adaptive/dash_player_deprecated.js                            *)
(*   WebMFileParser / WebMParser        src/shared/webm_parser.js          *)
(*   HttpFile                           src/shared/utils.js                *)
(*   WebMPlayer (single stream)         src/unnamed/part_002               *)
(*                                                                         *)
(* Every handler of the players (event listener, request completion,       *)
(* setTimeout continuation) is one action.  JavaScript runs a handler to   *)
(* completion, so an action contains every synchronous call of the handler.*)
(* A value that can be null in the code is a sequence of length 0 or 1.    *)
(***************************************************************************)
EXTENDS Integers, Sequences, FiniteSets, TLC

\* ------------------------------------------------------------------ bounds
\* Number of 'seeking' events the video element delivers.
MaxSeeks == 2
\* Number of clusters of every media file.
NumCues == 2
\* Number of stalled / timeupdate / progress events that ask for more data.
MaxStalls == 1
\* Longest cue list handed to the cue functions applied on their own.
MaxCueLen == 4
\* Number of parser operations applied in a row to one parser.
MaxParserOps == 3
\* Representations of the video adaptation set besides the one playing.
NumSiblings == 3
\* Retries of doParseHeaders followed.
MaxRetries == 3

\* ------------------------------------------------------- program constants
\* AdaptiveWebMStream.prototype.clusterQueueThreshold
ClusterQueueThreshold == 30
\* DashPlayer.prototype.audioVideoBufferThreshold
AudioVideoBufferThreshold == 30

Tracks == {"video", "audio"}

\* null / a value
Null == <<>>
Some(x) == <<x>>
IsNull(o) == Len(o) = 0
Val(o) == o[1]

\* --------------------------------------------------------------- resources
\* The cue points a Cues element holds: one per cluster, cluster i at byte
\* 100 + 50 * (i-1) and time 30 s * (i-1), plus a second cue point inside the
\* first cluster (at 10 s); the Cues element follows the last cluster.
CueTable ==
  [k \in 1..(NumCues + 1) |->
     IF k = 1 THEN [cueTime |-> 0, cueClusterPos |-> 100]
     ELSE IF k = 2 THEN [cueTime |-> 10, cueClusterPos |-> 100]
     ELSE [cueTime |-> 30 * (k - 2), cueClusterPos |-> 100 + 50 * (k - 2)]]
CuesElementOffset == 100 + 50 * NumCues
FileDuration == 30 * NumCues

\* What a header byte range holds: the bytes, where the Info element, the
\* Tracks element and the single TrackEntry inside it lie (first, last), and
\* the Duration the Info element carries, in seconds; an Info element without
\* a Duration parses to -1 (parseInfo_).
HeaderImages ==
  { [bytes |-> <<11, 12, 13, 14, 15, 16>>, info |-> <<1, 2>>, tracks |-> <<3, 6>>,
     entry |-> <<5, 6>>, duration |-> FileDuration],
    [bytes |-> <<21, 22, 23, 24, 25>>, info |-> <<2, 2>>, tracks |-> <<3, 5>>,
     entry |-> <<4, 5>>, duration |-> -1] }

\* The header a file is served with: a presentation with separate audio has
\* one image per track, a single-container file has either.
ImagesFor(tr, separateAudio) ==
  IF separateAudio
    THEN {img \in HeaderImages : (tr = "video") = (Len(img.bytes) = 6)}
    ELSE HeaderImages

\* Times the user seeks to: past the last cue.
SeekTimes == {30 * NumCues}

VARIABLES
  player,            \* which player the page constructed: "dash" or "webm"
  state,             \* DashPlayer.state / WebMPlayer.state
  seekSequenceNum,   \* DashPlayer.seekSequenceNum / WebMPlayer.sequence_num
  seekTime,          \* DashPlayer.seekTime / WebMPlayer.seek_time
  manifest,          \* dashParser / period: "none", "loading", "failed", "noVideo",
                     \*   "videoOnly", "audioVideo"
  adaptiveStreams_,  \* DashPlayer.adaptiveStreams_: track -> AdaptiveWebMStream
  webMFilesMap_,     \* AdaptiveWebMFile + its WebMFileParser, per track
  loads,             \* closures of loadExtraDataParallel / loadFirstHeadersParallel_
  inflight,          \* track -> sequence of cluster fetches whose callback is owed
  timers,            \* pending window.setTimeout continuations, by function
  sourceState,       \* videoElement.webkitSourceState: "closed", "open", "ended"
  openEvents,        \* webkitsourceopen events not yet dispatched
  webm,              \* the fields of WebMPlayer and of its WebMFileParser
  sink,              \* what the media element received (history of the run)
  step,              \* the handler that ran last, the state it found (sought: the
                     \*   state the last seek that began found), its sink calls
  call               \* a function applied on its own: its name, argument and result

vars == <<player, state, seekSequenceNum, seekTime, manifest, adaptiveStreams_,
          webMFilesMap_, loads, inflight, timers, sourceState, openEvents, webm,
          sink, step, call>>

\* --------------------------------------------------------------- EbmlParser

STATUS_OK == 0
STATUS_NEED_MORE_DATA == -2
STATUS_INVALID_DATA == -1

\* (ch & mask) == mask for a one-bit mask.
BitSet(ch, mask) == (ch \div mask) % 2 = 1

\* The marker scan of parseNum_: the number of the first of maxBytes
\* iterations whose mask bit is set in ch, -1 when there is none.
RECURSIVE markerScan(_, _, _, _)
markerScan(ch, mask, i, maxBytes) ==
  IF i >= maxBytes THEN -1
  ELSE IF BitSet(ch, mask) THEN i
  ELSE markerScan(ch, mask \div 2, i + 1, maxBytes)

\* (num << 8) | (0xff & byte) on 32-bit signed integers.
ShiftIn(num, byte) ==
  LET low == num % 16777216
  IN (IF low >= 8388608 THEN low - 16777216 ELSE low) * 256 + (byte % 256)

RECURSIVE readBytes(_, _, _, _, _)
readBytes(buf, start, num, bytesUsed, extraBytes) ==
  IF bytesUsed > extraBytes THEN num
  ELSE readBytes(buf, start, ShiftIn(num, buf[start + bytesUsed + 1]),
                 bytesUsed + 1, extraBytes)

\* parseNum_ reporting the whole length of the number as missing.
C20_Mutant_parseNum(buf, start, size, maxBytes, maskFirstByte) ==
  IF size <= 0
    THEN [status |-> STATUS_NEED_MORE_DATA, bytesNeeded |-> 1]
    ELSE LET ch == buf[start + 1]
             extraBytes == markerScan(ch, 128, 0, maxBytes)
         IN IF extraBytes = -1 THEN [status |-> STATUS_INVALID_DATA]
            ELSE IF 1 + extraBytes > size
              THEN [status |-> STATUS_NEED_MORE_DATA,
                    bytesNeeded |-> 1 + extraBytes]
            ELSE [status |-> STATUS_OK, bytesUsed |-> 1 + extraBytes,
                  value |-> 0]

\* EbmlParser.parseNum_ on the bytes buf (a sequence, buf[start + 1] being
\* the code's buf[start]) with size bytes left.
parseNum_(buf, start, size, maxBytes, maskFirstByte) ==
  IF size <= 0
    THEN [status |-> STATUS_NEED_MORE_DATA, bytesNeeded |-> 1]
    ELSE LET ch == buf[start + 1]
             extraBytes == markerScan(ch, 128, 0, maxBytes)
             mask == 2 ^ (7 - extraBytes)
             num == IF maskFirstByte THEN ch - mask ELSE ch
         IN IF extraBytes = -1 THEN [status |-> STATUS_INVALID_DATA]
            ELSE IF 1 + extraBytes > size
              THEN [status |-> STATUS_NEED_MORE_DATA,
                    bytesNeeded |-> 1 + extraBytes - size]
            ELSE [status |-> STATUS_OK, bytesUsed |-> 1 + extraBytes,
                  value |-> readBytes(buf, start, num, 1, extraBytes)]

\* EbmlParser.parseElementHeader.
parseElementHeader(buf, start, size) ==
  IF size = 0 THEN [status |-> STATUS_OK, bytesUsed |-> 0]
  ELSE LET id == parseNum_(buf, start, size, 4, FALSE)
       IN IF id.status # STATUS_OK THEN id
          ELSE IF id.bytesUsed <= 0 THEN [status |-> STATUS_INVALID_DATA]
          ELSE LET res == parseNum_(buf, start + id.bytesUsed,
                                    size - id.bytesUsed, 8, TRUE)
               IN IF res.status # STATUS_OK THEN res
                  ELSE IF res.bytesUsed <= 0
                    THEN [status |-> STATUS_INVALID_DATA]
                  ELSE [status |-> STATUS_OK,
                        bytesUsed |-> id.bytesUsed + res.bytesUsed,
                        id |-> id.value, elementSize |-> res.value]

\* ---------------------------------------------------------------- parseList_
\* A schema maps element IDs to "stop" (a null entry), "skip" (SKIP_) or the
\* name of the property the parsed value is stored under. The parse function
\* of an entry is taken to use the whole payload and to return its bytes.
GLOBAL_IDS_ == (236 :> "skip") @@ (191 :> "skip")

SEGMENT_IDS_ ==
  (290298740 :> "seekHead") @@ (357149030 :> "info") @@ (374648427 :> "tracks")
  @@ (524531317 :> "stop") @@ (475249515 :> "skip")

\* What parseList_ does with an element that asks for more bytes before it
\* looks for the stop entry.
C25_Mutant_elementStep(info, elementSize, curSize) ==
  IF elementSize > curSize THEN "need"
  ELSE IF info = "stop" THEN "stop"
  ELSE IF info = "skip" THEN "skip"
  ELSE "parse"

\* What parseList_ does with an element whose schema entry is info.
elementStep(info, elementSize, curSize) ==
  IF info = "stop" THEN "stop"
  ELSE IF elementSize > curSize THEN "need"
  ELSE IF info = "skip" THEN "skip"
  ELSE "parse"

\* The while loop of parseList_; obj maps property names to values.
RECURSIVE parseListLoop(_, _, _, _, _, _, _)
parseListLoop(idInfo, buf, start, size, curStart, curSize, obj) ==
  IF curSize <= 0
    THEN [status |-> STATUS_OK, bytesUsed |-> size - curSize, value |-> obj]
  ELSE
    LET res == parseElementHeader(buf, curStart, curSize)
    IN IF res.status # STATUS_OK THEN res
       ELSE
         LET elementOffset == curStart
             dataOffset == elementOffset + res.bytesUsed
             elementSize == res.elementSize
             known == res.id \in DOMAIN GLOBAL_IDS_ \cup DOMAIN idInfo
             info == IF res.id \in DOMAIN GLOBAL_IDS_
                       THEN GLOBAL_IDS_[res.id] ELSE idInfo[res.id]
             todo == elementStep(info, elementSize, curSize - res.bytesUsed)
         IN IF ~known THEN [status |-> STATUS_INVALID_DATA]
            ELSE IF todo = "stop"
              THEN [status |-> STATUS_OK, bytesUsed |-> elementOffset - start,
                    value |-> obj]
            ELSE IF todo = "need"
              THEN [status |-> STATUS_NEED_MORE_DATA,
                    bytesNeeded |-> elementSize - (curSize - res.bytesUsed)]
            ELSE parseListLoop(
                   idInfo, buf, start, size, dataOffset + elementSize,
                   curSize - res.bytesUsed - elementSize,
                   IF todo = "skip" THEN obj
                   ELSE (info :> SubSeq(buf, dataOffset + 1,
                                        dataOffset + elementSize)) @@ obj)

parseList_(idInfo, buf, start, size, obj) ==
  parseListLoop(idInfo, buf, start, size, start, size, obj)

\* ------------------------------------------------------- parsing the headers
\* What the callback inside doParseHeaders does once ensureEnoughBytes has
\* answered: enough is its answer, ebml the status of parseEBMLHeader_ and
\* segment that of parseSegmentHeaders. "retry" is doParseHeaders again with
\* twice ensureSize, "fetchIndex" the next stage, "false" doneCallback(false).
doParseHeaders(enough, ebml, segment) ==
  IF ~enough THEN "false"
  ELSE IF ebml # STATUS_OK THEN "false"
  ELSE IF segment = STATUS_OK THEN "fetchIndex"
  ELSE IF segment = STATUS_NEED_MORE_DATA THEN "retry"
  ELSE "false"

\* The callback inside parseFirstHeadersUnbuffered: fetched tells whether the
\* byte range came; "true" and "false" are what doneCallback is given.
parseFirstHeadersUnbuffered(fetched, ebml, segment) ==
  IF ~fetched THEN "false"
  ELSE IF ebml # STATUS_OK THEN "false"
  ELSE IF segment # STATUS_OK THEN "false"
  ELSE "true"

\* The callback inside parseFirstHeaders: the object parseSegmentHeaders
\* returns is tested for truthiness, which every status object has, so
\* segment does not enter the result.
parseFirstHeaders(success, ebml, segment) ==
  IF ~success THEN "false"
  ELSE IF ebml # STATUS_OK THEN "false"
  ELSE "true"

\* ----------------------------------------------------------------- HttpFile
\* file: [fileOffset_, index_, buffer_], buffer_ the length of the buffer
\* (Null for null).
getCurrentOffset(file) == file.fileOffset_ + file.index_

getBytesAvailable(file) ==
  IF IsNull(file.buffer_) THEN 0 ELSE Val(file.buffer_) - file.index_

seek(file, offset) ==
  IF /\ ~IsNull(file.buffer_)
     /\ offset >= file.fileOffset_
     /\ offset < file.fileOffset_ + Val(file.buffer_)
    THEN [file EXCEPT !.index_ = offset - file.fileOffset_]
    ELSE [fileOffset_ |-> offset, index_ |-> 0, buffer_ |-> Null]

read(file, size) == seek(file, getCurrentOffset(file) + size)

\* fetchBytes_(size) answered with got bytes.
fetchBytes_(file, size, got) ==
  IF size < getBytesAvailable(file) THEN file
  ELSE [fileOffset_ |-> getCurrentOffset(file), index_ |-> 0, buffer_ |-> Some(got)]

\* doParseHeaders that leaves the cursor where the parse stopped.
C37_Mutant_doParseHeadersOn(file, ensureSize, got, ebml, segment) ==
  LET f1 == fetchBytes_(file, ensureSize, got)
      out == doParseHeaders(getBytesAvailable(f1) >= ensureSize, ebml.status,
                            segment.status)
      f2 == read(f1, ebml.bytesUsed)
  IN [out |-> out,
      file |-> IF out = "fetchIndex" THEN read(f2, segment.bytesUsed)
               ELSE IF out = "retry" THEN f2
               ELSE IF getBytesAvailable(f1) >= ensureSize /\ ebml.status = STATUS_OK
                 THEN f2 ELSE f1,
      next |-> IF out = "retry" THEN Some(2 * ensureSize) ELSE Null]

\* doParseHeaders(doneCallback, ensureSize) on the file, the request answered
\* with got bytes; ebml and segment are the results ([status, bytesUsed]) of
\* parseEBMLHeader_ and parseSegmentHeaders.  out is what follows, file the
\* file afterwards and next the ensureSize of the retry it schedules.
doParseHeadersOn(file, ensureSize, got, ebml, segment) ==
  LET f1 == fetchBytes_(file, ensureSize, got)
      out == doParseHeaders(getBytesAvailable(f1) >= ensureSize, ebml.status,
                            segment.status)
      originalOffset == getCurrentOffset(f1)
      f2 == read(f1, ebml.bytesUsed)
  IN [out |-> out,
      file |-> IF out = "fetchIndex" THEN read(f2, segment.bytesUsed)
               ELSE IF out = "retry" THEN seek(f2, originalOffset)
               ELSE IF getBytesAvailable(f1) >= ensureSize /\ ebml.status = STATUS_OK
                 THEN f2 ELSE f1,
      next |-> IF out = "retry" THEN Some(2 * ensureSize) ELSE Null]

\* ------------------------------------------------------------ cue look-ups
\* Math.round((r - l) / 2) for r >= l
RoundHalf(n) == (n + 1) \div 2

\* The loop of getCueIndexFromTime_ / getCueDescFromOffset over 0-based l, r.
RECURSIVE CueSearchLoop(_, _, _, _, _)
CueSearchLoop(cues, key, target, l, r) ==
  IF l + 1 < r
    THEN LET m == l + RoundHalf(r - l)
         IN IF cues[m + 1][key] <= target
              THEN CueSearchLoop(cues, key, target, m, r)
              ELSE CueSearchLoop(cues, key, target, l, m)
    ELSE l

\* The search without its first test against the last cue.
C18_Mutant_CueSearch(cues, key, target) ==
  CueSearchLoop(cues, key, target, 0, Len(cues) - 1)

\* 0-based index of the cue the search settles on; cues is not empty.
CueSearch(cues, key, target) ==
  LET r == Len(cues) - 1
      l == IF target >= cues[r + 1][key] THEN r ELSE 0
  IN CueSearchLoop(cues, key, target, l, r)

getCueIndexFromTime_(cues, time) == CueSearch(cues, "cueTime", time)

\* The scan that stops at the very next cue point, aliasing or not.
C19_Mutant_CueEnd(cues, startOffset, cueEnd) == cueEnd

\* First index after index whose cluster position differs (Len(cues) if none).
RECURSIVE CueEnd(_, _, _)
CueEnd(cues, startOffset, cueEnd) ==
  IF cueEnd < Len(cues) /\ startOffset = cues[cueEnd + 1].cueClusterPos
    THEN CueEnd(cues, startOffset, cueEnd + 1)
    ELSE cueEnd

\* parser: [cues_, seekHead_, duration_, ...]; index is 0-based and in range.
getCueDescFromCue_(parser, index) ==
  LET cues == Val(parser.cues_)
      startOffset == cues[index + 1].cueClusterPos
      cueEnd == CueEnd(cues, startOffset, index + 1)
  IN [time |-> cues[index + 1].cueTime,
      offset |-> startOffset,
      size |-> IF cueEnd < Len(cues)
                 THEN cues[cueEnd + 1].cueClusterPos - startOffset
                 ELSE IF "CUES" \in DOMAIN parser.seekHead_
                         /\ parser.seekHead_["CUES"] > startOffset
                        THEN parser.seekHead_["CUES"] - startOffset
                        ELSE -1,
      endTime |-> IF cueEnd < Len(cues) THEN cues[cueEnd + 1].cueTime
                  ELSE parser.duration_]

\* Null stands for a status other than STATUS_OK.
CuesValid(parser) == ~IsNull(parser.cues_) /\ Len(Val(parser.cues_)) > 0

getCueDescFromTime(parser, time) ==
  IF CuesValid(parser)
    THEN Some(getCueDescFromCue_(parser, getCueIndexFromTime_(Val(parser.cues_), time)))
    ELSE Null

getCueDescFromOffset(parser, offset) ==
  IF CuesValid(parser)
    THEN Some(getCueDescFromCue_(parser,
                CueSearch(Val(parser.cues_), "cueClusterPos", offset)))
    ELSE Null

getFirstCueDesc(parser) ==
  IF "CLUSTER" \in DOMAIN parser.seekHead_ /\ CuesValid(parser)
    THEN Some(getCueDescFromCue_(parser, 0))
    ELSE Null

\* ------------------------------------------------------- buffer projection
\* The numbers of bufferSizeAfterTime are fractions n / d with d > 0, in
\* lowest terms; the rounding of the code's doubles is left out.
RECURSIVE GCD(_, _)
GCD(a, b) == IF b = 0 THEN a ELSE GCD(b, a % b)

Abs(x) == IF x < 0 THEN -x ELSE x

Frac(n, d) ==
  LET s == IF d < 0 THEN -1 ELSE 1
      g == GCD(Abs(n), Abs(d))
  IN [n |-> (s * n) \div g, d |-> (s * d) \div g]

Whole(x) == [n |-> x, d |-> 1]
FAdd(a, b) == Frac(a.n * b.d + b.n * a.d, a.d * b.d)
FSub(a, b) == Frac(a.n * b.d - b.n * a.d, a.d * b.d)
FMul(a, b) == Frac(a.n * b.n, a.d * b.d)
FDiv(a, b) == Frac(a.n * b.d, a.d * b.n)
FLess(a, b) == a.n * b.d < b.n * a.d

\* ((cueBytes * 8) / 1000.0) / kbps
timeToDownload(cueBytes, kbps) ==
  FDiv(FDiv(FMul(cueBytes, Whole(8)), Whole(1000)), Whole(kbps))

\* secDownloaded and secDownloading after a cue was counted: cut to the
\* horizon when the download runs over it.
Counted(secDownloading, secDownloaded, timeToSearch) ==
  IF FLess(timeToSearch, secDownloading)
    THEN [secDownloading |-> timeToSearch,
          secDownloaded |-> FMul(FDiv(timeToSearch, secDownloading),
                                 secDownloaded),
          cut |-> TRUE]
    ELSE [secDownloading |-> secDownloading, secDownloaded |-> secDownloaded,
          cut |-> FALSE]

\* The while loop of bufferSizeAfterTime from cue index on.
RECURSIVE bufferLoop(_, _, _, _, _, _)
bufferLoop(parser, index, secDownloading, secDownloaded, timeToSearch, kbps) ==
  IF index < Len(Val(parser.cues_)) /\ FLess(secDownloading, timeToSearch)
    THEN LET currentCueDesc == getCueDescFromCue_(parser, index)
             cueSec == Whole(currentCueDesc.endTime - currentCueDesc.time)
             c == Counted(FAdd(secDownloading,
                               timeToDownload(Whole(currentCueDesc.size), kbps)),
                          FAdd(secDownloaded, cueSec), timeToSearch)
         IN IF c.cut THEN c
            ELSE bufferLoop(parser, index + 1, c.secDownloading,
                            c.secDownloaded, timeToSearch, kbps)
    ELSE [secDownloading |-> secDownloading, secDownloaded |-> secDownloaded,
          cut |-> FALSE]

\* bufferSizeAfterTime(time, timeToSearch, kbps, buffer); time, timeToSearch
\* and buffer are whole seconds, the result's seconds and buffer fractions.
\* Null stands for a status other than STATUS_OK.
bufferSizeAfterTime(parser, time, timeToSearch, kbps, buffer) ==
  IF ~CuesValid(parser) THEN Null
  ELSE
    LET startingIndex == getCueIndexFromTime_(Val(parser.cues_), time)
        first == getCueDescFromCue_(parser, startingIndex)
        horizon == Whole(timeToSearch)
        head == IF time > first.time
                  THEN LET cueSec == Whole(first.endTime - time)
                           percent ==
                             FDiv(cueSec, Whole(first.endTime - first.time))
                           cueBytes == FMul(Whole(first.size), percent)
                       IN Counted(timeToDownload(cueBytes, kbps), cueSec,
                                  horizon)
                  ELSE [secDownloading |-> Whole(0), secDownloaded |-> Whole(0),
                        cut |-> FALSE]
        tail == bufferLoop(parser,
                           IF time > first.time THEN startingIndex + 1
                           ELSE startingIndex,
                           head.secDownloading, head.secDownloaded, horizon,
                           kbps)
    IN Some([seconds |-> tail.secDownloading,
             buffer |-> FAdd(FSub(tail.secDownloaded, tail.secDownloading),
                             Whole(buffer))])

\* ------------------------------------------------------ AdaptiveWebMStream
\* The fields resetStreamData() assigns; source and cueDesc are left alone.
resetStreamData(s) ==
  [s EXCEPT !.checkSwitching_ = FALSE, !.cueDescQueue = <<>>, !.clusterQueue = <<>>,
            !.clusterQueueThreshold = ClusterQueueThreshold,
            !.cueBytesDownloaded_ = 0, !.fetchingClusters_ = FALSE,
            !.endOfClusters_ = FALSE, !.lastTimeSent_ = 0]

\* new AdaptiveWebMStream() followed by the assignment of its source.
NewStream(src) ==
  resetStreamData([checkSwitching_ |-> FALSE, cueDescQueue |-> <<>>,
                   clusterQueue |-> <<>>, clusterQueueThreshold |-> 0,
                   cueBytesDownloaded_ |-> 0, fetchingClusters_ |-> FALSE,
                   endOfClusters_ |-> FALSE, lastTimeSent_ |-> 0,
                   source |-> src, cueDesc |-> Null])

\* A stream that always says its queue is empty.
C3_Mutant_empty(s) == TRUE

empty(s) == Len(s.clusterQueue) = 0

\* front() that forgets to shift cueDescQueue.
C12_Mutant_front(s) ==
  IF Len(s.clusterQueue) > 0
    THEN [s |-> [s EXCEPT !.lastTimeSent_ = s.cueDescQueue[1].endTime,
                          !.clusterQueue = Tail(@)],
          data |-> Some(s.clusterQueue[1])]
    ELSE [s |-> s, data |-> Null]

\* front(): [s |-> the stream afterwards, data |-> the buffer or Null]
front(s) ==
  IF Len(s.clusterQueue) > 0
    THEN [s |-> [s EXCEPT !.lastTimeSent_ = s.cueDescQueue[1].endTime,
                          !.clusterQueue = Tail(@), !.cueDescQueue = Tail(@)],
          data |-> Some(s.clusterQueue[1])]
    ELSE [s |-> s, data |-> Null]

\* checkFront() without the test of the cue's start time.
C15_Mutant_checkFront(s, time) ==
  IF Len(s.clusterQueue) > 0
    THEN [s |-> [s EXCEPT !.clusterQueue = Tail(@), !.cueDescQueue = Tail(@),
                          !.lastTimeSent_ = s.cueDescQueue[1].endTime],
          data |-> Some(s.clusterQueue[1])]
    ELSE [s |-> s, data |-> Null]

checkFront(s, time) ==
  IF Len(s.clusterQueue) > 0 /\ s.cueDescQueue[1].time <= time
    THEN [s |-> [s EXCEPT !.clusterQueue = Tail(@), !.cueDescQueue = Tail(@),
                          !.lastTimeSent_ = s.cueDescQueue[1].endTime],
          data |-> Some(s.clusterQueue[1])]
    ELSE [s |-> s, data |-> Null]

\* addNewCluster without the fetchingClusters_ test.
C2_Mutant_addNewCluster(s) ==
  ~s.endOfClusters_ /\ Len(s.clusterQueue) < s.clusterQueueThreshold

addNewCluster(s) ==
  ~s.endOfClusters_ /\ ~s.fetchingClusters_
  /\ Len(s.clusterQueue) < s.clusterQueueThreshold

\* -------------------------------------------- AdaptiveWebMFile / parser state
EmptyMap == [x \in {} |-> 0]

\* new AdaptiveWebMFile(); the fields of its WebMParser are those of a parser
\* not yet created (parser = FALSE) or just constructed.
NewFile ==
  [state |-> "HEADERS_NEEDED", parser |-> FALSE, segmentOffset_ |-> -1,
   seekHead_ |-> EmptyMap, infoElement_ |-> Null, tracksElement_ |-> Null,
   trackObjects_ |-> <<>>, duration_ |-> -1, cues_ |-> Null, resource |-> Null]

\* AdaptiveWebMFile.canSeek over WebMFileParser.canSeek: there is a parser
\* and its cues are not null.
canSeek(file) == file.parser /\ ~IsNull(file.cues_)

Slice(bytes, range) == SubSeq(bytes, range[1], range[2])

\* parseSegmentHeaders that stores the Duration of the Info element whenever
\* there is one.
C24_Mutant_parseSegmentHeaders(f, img) ==
  [f EXCEPT !.segmentOffset_ = IF @ = -1 THEN 40 ELSE @,
            !.seekHead_ = ("CUES" :> CuesElementOffset) @@ ("CLUSTER" :> 100),
            !.infoElement_ = Some(Slice(img.bytes, img.info)),
            !.tracksElement_ = Some(Slice(img.bytes, img.tracks)),
            !.trackObjects_ = Append(@, Slice(img.bytes, img.entry)),
            !.duration_ = IF img.duration > 0 THEN img.duration ELSE @,
            !.resource = Some(img)]

\* parseEBMLHeader_ + parseSegmentHeaders succeeding on a header range holding
\* img: the Segment payload starts at byte 40, its SeekHead lists the Cues
\* element, the first Cluster follows the headers at byte 100.
parseSegmentHeaders(f, img) ==
  [f EXCEPT !.segmentOffset_ = IF @ = -1 THEN 40 ELSE @,
            !.seekHead_ = ("CUES" :> CuesElementOffset) @@ ("CLUSTER" :> 100),
            !.infoElement_ = Some(Slice(img.bytes, img.info)),
            !.tracksElement_ = Some(Slice(img.bytes, img.tracks)),
            !.trackObjects_ = Append(@, Slice(img.bytes, img.entry)),
            !.duration_ = IF img.duration > 0 /\ @ = -1 THEN img.duration ELSE @,
            !.resource = Some(img)]

\* setSegmentOffset(offset)
setSegmentOffset(f, offset) ==
  IF offset > 0 THEN [f EXCEPT !.segmentOffset_ = offset] ELSE f

\* setDuration(duration)
setDuration(f, duration) == [f EXCEPT !.duration_ = duration]

\* The load operations of AdaptiveWebMFile up to their return, on a
\* representation rep = [url, header, index, duration] (url, header and index
\* tell whether the url, the header range and the index range are set):
\* the file afterwards, the byte-range requests issued and whether the
\* callback was given an error.
Rejected(file) == [file |-> file, requests |-> 0, error |-> TRUE]

loadHeader(file, rep) ==
  IF ~rep.url \/ ~rep.header THEN Rejected(file)
  ELSE [file |-> [file EXCEPT !.state = "PARSING_HEADERS", !.parser = TRUE],
        requests |-> 1, error |-> FALSE]

loadIndex(file, rep) ==
  IF ~rep.url \/ ~rep.index THEN Rejected(file)
  ELSE LET f == [file EXCEPT !.state = "PARSING_HEADERS", !.parser = TRUE]
       IN IF rep.duration = 0 THEN Rejected(f)
          ELSE [file |-> setSegmentOffset(setDuration(f, rep.duration), -1),
                requests |-> 1, error |-> FALSE]

loadExtraDataParallelOf(file, rep) ==
  IF ~rep.url \/ ~rep.header \/ ~rep.index THEN Rejected(file)
  ELSE [file |-> setSegmentOffset(
                   [file EXCEPT !.state = "PARSING_HEADERS", !.parser = TRUE], -1),
        requests |-> 2, error |-> FALSE]

\* parsePointEntry_ over every CuePoint: the encoded cluster position is
\* relative to the Segment payload and segmentOffset_ is added as it stands.
parsePointEntries(segmentOffset_) ==
  [i \in 1..Len(CueTable) |->
     [cueTime |-> CueTable[i].cueTime,
      cueClusterPos |-> (CueTable[i].cueClusterPos - 40) + segmentOffset_]]

\* parseCues_ succeeding on the Cues element found at CuesElementOffset.
parseCues_(f) ==
  [f EXCEPT !.cues_ = Some(parsePointEntries(f.segmentOffset_)),
            !.seekHead_ = IF "CUES" \in DOMAIN @ THEN @
                          ELSE ("CUES" :> CuesElementOffset) @@ @]

\* squishCues(): drop every cue whose cluster position equals its predecessor's.
\* squishCues without the "check this element again" step.
RECURSIVE C16_Mutant_squish(_)
C16_Mutant_squish(cues) ==
  IF Len(cues) < 2 THEN cues
  ELSE IF cues[1].cueClusterPos = cues[2].cueClusterPos
         THEN <<cues[1]>> \o C16_Mutant_squish(SubSeq(cues, 3, Len(cues)))
         ELSE <<cues[1]>> \o C16_Mutant_squish(Tail(cues))

\* squishCues that splices out the earlier of two aliasing cue points.
RECURSIVE C17_Mutant_squish(_)
C17_Mutant_squish(cues) ==
  IF Len(cues) < 2 THEN cues
  ELSE IF cues[1].cueClusterPos = cues[2].cueClusterPos
         THEN C17_Mutant_squish(Tail(cues))
         ELSE <<cues[1]>> \o C17_Mutant_squish(Tail(cues))

RECURSIVE squish(_)
squish(cues) ==
  IF Len(cues) < 2 THEN cues
  ELSE IF cues[1].cueClusterPos = cues[2].cueClusterPos
         THEN squish(<<cues[1]>> \o SubSeq(cues, 3, Len(cues)))
         ELSE <<cues[1]>> \o squish(Tail(cues))

squishCues(f) == [f EXCEPT !.cues_ = Some(squish(Val(@)))]

\* ------------------------------------------------------------- DashPlayer
\* A handler works on the record m of the fields it can touch:
\*   state, seq (seekSequenceNum), seekTime, S (adaptiveStreams_), files,
\*   loads, inflight, timers, src (webkitSourceState),
\*   calls (the calls made on the video element), blob (the bytes of an
\*   appended initialization blob), reports (reportParseError invocations).
Machine ==
  [state |-> state, seq |-> seekSequenceNum, seekTime |-> seekTime,
   S |-> adaptiveStreams_, files |-> webMFilesMap_, loads |-> loads,
   inflight |-> inflight, timers |-> timers, src |-> sourceState,
   calls |-> <<>>, blob |-> Null, reports |-> 0, pushed |-> FALSE]

hasAud(m) == "audio" \in DOMAIN m.S

\* window.setTimeout(function() { t.<fn>(); })
setTimeout(m, fn) == [m EXCEPT !.timers[fn] = @ + 1]

\* videoElement.webkitSourceEndOfStream(status)
webkitSourceEndOfStream(m, status) ==
  [m EXCEPT !.calls = Append(@, [kind |-> "eos", what |-> status]),
            !.src = IF @ = "open" THEN "ended" ELSE @]

\* reportParseError without the SOURCE_OPEN test.
C5_Mutant_reportParseError(m) ==
  webkitSourceEndOfStream([m EXCEPT !.state = "ERROR", !.reports = @ + 1],
                          "EOS_DECODE_ERR")

reportParseError(m) ==
  LET m1 == [m EXCEPT !.state = "ERROR", !.reports = @ + 1]
  IN IF m1.src = "open" THEN webkitSourceEndOfStream(m1, "EOS_DECODE_ERR") ELSE m1

appendData(m, what) ==
  IF m.state = "LOADING"
    THEN [m EXCEPT !.calls = Append(@, [kind |-> "append", what |-> what])]
    ELSE m

endOfStream(m) == webkitSourceEndOfStream(m, "EOS_NO_ERROR")

\* The parser of the file a stream plays.
ParserOf(m, tr) == m.files[m.S[tr].source]

\* fetchCueData(cueDesc, callback): the request now owed a completion.
fetchCueData(m, tr) ==
  [m EXCEPT !.inflight[tr] =
     Append(@, [cueDesc |-> Val(m.S[tr].cueDesc), seqNum |-> m.seq,
                source |-> m.S[tr].source])]

fetchPartialClusters(m) ==
  LET vid == m.S["video"]
      deltaV == IF hasAud(m)
                  THEN Val(vid.cueDesc).time - Val(m.S["audio"].cueDesc).time
                  ELSE 0
      m1 == IF addNewCluster(vid) /\ deltaV < AudioVideoBufferThreshold
              THEN fetchCueData([m EXCEPT !.S["video"].fetchingClusters_ = TRUE],
                                "video")
              ELSE m
  IN IF hasAud(m)
       THEN LET aud == m1.S["audio"]
                deltaA == Val(aud.cueDesc).time - Val(vid.cueDesc).time
            IN IF addNewCluster(aud) /\ deltaA < AudioVideoBufferThreshold
                 THEN fetchCueData(
                        [m1 EXCEPT !.S["audio"].fetchingClusters_ = TRUE], "audio")
                 ELSE m1
       ELSE m1

\* The video adaptation set of the modelled presentation has one
\* representation: findVideoNextBandwidth finds no neighbour and no switch
\* takes place.
checkVideoStreamFutureTime(m) == m

\* "Check to see if a seek happened while we were getting the cluster."
\* The sequence check left out.
C1_Mutant_seekHappened(seqNum, seekSequenceNumNow) == FALSE

seekHappened(seqNum, seekSequenceNumNow) == seqNum # seekSequenceNumNow

onPartialCueDescDownload(m, tr, nextCueDesc, seqNum, buf) ==
  LET stream == m.S[tr]
      cueFinished == IF IsNull(nextCueDesc) THEN TRUE
                     ELSE Val(stream.cueDesc).offset # Val(nextCueDesc).offset
      idle == [m EXCEPT !.S[tr].fetchingClusters_ = FALSE]
  IN IF m.state = "SEEKING"
       THEN IF cueFinished THEN setTimeout(idle, "startSeek") ELSE m
     ELSE IF m.state = "STOPPED" THEN idle
     ELSE IF m.state # "LOADING" THEN idle
     ELSE IF seekHappened(seqNum, m.seq) THEN (IF cueFinished THEN idle ELSE m)
     ELSE IF IsNull(buf)
       THEN reportParseError([idle EXCEPT !.S[tr].endOfClusters_ = TRUE])
     ELSE
       LET m1 == [m EXCEPT
                    !.S[tr].cueBytesDownloaded_ = @ + Val(buf).length,
                    !.S[tr].clusterQueue = Append(@, Val(buf)),
                    !.S[tr].cueDescQueue = Append(@, Val(stream.cueDesc)),
                    !.pushed = TRUE]
           m2 == IF ~cueFinished THEN m1
                 ELSE LET m3 == [m1 EXCEPT !.S[tr].fetchingClusters_ = FALSE,
                                           !.S[tr].cueBytesDownloaded_ = 0]
                      IN IF IsNull(nextCueDesc)
                           THEN [m3 EXCEPT !.S[tr].endOfClusters_ = TRUE]
                           ELSE LET m4 == [m3 EXCEPT !.S[tr].cueDesc = nextCueDesc]
                                IN fetchPartialClusters(
                                     IF m4.S[tr].checkSwitching_
                                       THEN checkVideoStreamFutureTime(m4)
                                       ELSE m4)
       IN setTimeout(m2, "sendPartialClusters")

sendPartialClusters(m) ==
  LET vid0 == m.S["video"]
      audPop == IF vid0.endOfClusters_ /\ empty(vid0)
                  THEN front(m.S["audio"])
                  ELSE checkFront(m.S["audio"], vid0.lastTimeSent_)
      m1 == IF hasAud(m)
              THEN LET ma == [m EXCEPT !.S["audio"] = audPop.s]
                   IN IF IsNull(audPop.data) THEN ma ELSE appendData(ma, "audio")
              ELSE m
      vidPop == front(m1.S["video"])
      mv == [m1 EXCEPT !.S["video"] = vidPop.s]
      m2 == IF IsNull(vidPop.data) THEN mv ELSE appendData(mv, "video")
      vid == m2.S["video"]
  IN IF vid.endOfClusters_ /\ empty(vid)
       THEN IF hasAud(m2)
              THEN IF ~empty(m2.S["audio"]) THEN setTimeout(m2, "sendPartialClusters")
                   ELSE IF m2.S["audio"].endOfClusters_ THEN endOfStream(m2)
                   ELSE m2
              ELSE endOfStream(m2)
       ELSE m2

startSeek(m) ==
  IF m.S["video"].fetchingClusters_ THEN m
  ELSE IF hasAud(m) /\ m.S["audio"].fetchingClusters_ THEN m
  ELSE
    LET m1 == [m EXCEPT !.S["video"] =
                 [resetStreamData(@) EXCEPT !.checkSwitching_ = TRUE]]
        m2 == IF hasAud(m) THEN [m1 EXCEPT !.S["audio"] = resetStreamData(@)]
              ELSE m1
        resV == getCueDescFromTime(ParserOf(m2, "video"), m.seekTime)
    IN IF IsNull(resV) THEN m2
       ELSE LET m3 == [m2 EXCEPT !.S["video"].cueDesc = resV]
                resA == getCueDescFromTime(ParserOf(m3, "audio"), m.seekTime)
            IN IF hasAud(m) /\ IsNull(resA) THEN m3
               ELSE fetchPartialClusters(
                      [(IF hasAud(m) THEN [m3 EXCEPT !.S["audio"].cueDesc = resA]
                        ELSE m3) EXCEPT !.state = "LOADING"])

\* adaptiveStreams_['video'] is undefined until initializeFirstStreams_ has
\* run: reading its fetchingClusters_ ends the handler with a TypeError.
doSeeking(m, currentTime) ==
  LET m1 == [m EXCEPT !.seq = @ + 1, !.seekTime = currentTime]
  IN IF m1.state = "SEEKING" THEN m1
     ELSE LET m2 == [m1 EXCEPT !.state = "SEEKING"]
          IN IF "video" \notin DOMAIN m2.S THEN m2
             ELSE IF m2.S["video"].fetchingClusters_ THEN m2
             ELSE IF hasAud(m2) /\ m2.S["audio"].fetchingClusters_ THEN m2
             ELSE startSeek(m2)

doClose(m) == IF m.state = "STOPPED" THEN m ELSE [m EXCEPT !.state = "STOPPED"]

\* The 7 low-order bytes of the synthesized Tracks header: tmp & 0xff, tmp >>= 8
\* written from byte 11 down to byte 5.
RECURSIVE ShiftRight8(_, _)
ShiftRight8(tmp, i) == IF i = 0 THEN tmp ELSE ShiftRight8(tmp \div 256, i - 1)
BigEndian7(dataSize) == [k \in 1..7 |-> ShiftRight8(dataSize, 7 - k) % 256]

\* Null stands for an ErrorStatus.
createTracksElement(m) ==
  LET vidP == ParserOf(m, "video")
      audP == ParserOf(m, "audio")
  IN IF ~hasAud(m) THEN Null
     ELSE IF Len(audP.trackObjects_) # 1 THEN Null
     ELSE IF Len(vidP.trackObjects_) # 1 THEN Null
     ELSE LET audioTrackObject == audP.trackObjects_[1]
              videoTrackObject == vidP.trackObjects_[1]
              dataSize == Len(audioTrackObject) + Len(videoTrackObject)
          IN Some(<<22, 84, 174, 107, 1>> \o BigEndian7(dataSize)
                  \o videoTrackObject \o audioTrackObject)

\* getFirstCueDesc cannot fail once every header and index has been parsed; if
\* it did, the undefined cueDesc would end the handler inside
\* fetchPartialClusters / fetchCueData after the error was reported.
\* The downloadAllMediaInfo continuation scheduled last finds no file in
\* HEADERS_NEEDED (every adaptation set of the modelled presentation has one
\* representation) and changes nothing: it is not kept as a pending timer.
loadFirstClusters(m) ==
  LET resV == getFirstCueDesc(ParserOf(m, "video"))
      m1 == IF IsNull(resV) THEN reportParseError(m) ELSE m
      m2 == [m1 EXCEPT !.S["video"].cueDesc = resV]
      resA == getFirstCueDesc(ParserOf(m, "audio"))
      m3 == IF hasAud(m)
              THEN [(IF IsNull(resA) THEN reportParseError(m2) ELSE m2)
                      EXCEPT !.S["audio"].cueDesc = resA]
              ELSE m2
  IN IF IsNull(resV) \/ (hasAud(m) /\ IsNull(resA)) THEN m3
     ELSE fetchPartialClusters(m3)

\* new Uint8Array(info.length + tracks.length); set(info, 0); set(tracks, info.length)
\* The two elements copied in the other order.
C9_Mutant_infoTracksOf(info, tracks) == tracks \o info

infoTracksOf(info, tracks) == info \o tracks

onParseHeadersDone(m, success) ==
  IF ~success THEN reportParseError(m)
  ELSE
    LET info == ParserOf(m, "video").infoElement_
        tracks == IF hasAud(m) THEN createTracksElement(m)
                  ELSE ParserOf(m, "video").tracksElement_
    IN IF IsNull(info) THEN reportParseError(m)
       ELSE IF IsNull(tracks) THEN reportParseError(m)
       ELSE LET infoTracks == infoTracksOf(Val(info), Val(tracks))
                m1 == appendData([m EXCEPT !.state = "LOADING"], "init")
            IN loadFirstClusters([m1 EXCEPT !.blob = Some(infoTracks)])

\* The callbacks loadFirstHeadersParallel_ hands to loadExtraDataParallel.
OtherTrack(tr) == IF tr = "video" THEN "audio" ELSE "video"

headersCallback(m, tr, ok) ==
  IF hasAud(m)
    THEN IF ~ok THEN onParseHeadersDone(m, FALSE)
         ELSE [(IF m.loads.downloaded[OtherTrack(tr)]
                  THEN onParseHeadersDone(m, TRUE) ELSE m)
                 EXCEPT !.loads.downloaded[tr] = TRUE]
    ELSE onParseHeadersDone(m, ok)

\* Completion of parseFirstHeadersUnbuffered inside loadExtraDataParallel.
onHeadersParsed(m, tr, success, img) ==
  LET src == m.S[tr].source
  IN IF success
       THEN LET m1 == [m EXCEPT !.files[src] = parseSegmentHeaders(@, img)]
                m2 == IF m1.loads.cuesParsed[tr]
                        THEN LET l == [m1 EXCEPT !.files[src].state = "HEADERS_LOADED"]
                             IN IF IsNull(l.files[src].cues_)
                                  THEN headersCallback(
                                         headersCallback(
                                           [l EXCEPT !.files[src].state = "ERROR"],
                                           tr, FALSE), tr, TRUE)
                                  ELSE headersCallback(
                                         [l EXCEPT !.files[src] = squishCues(@)],
                                         tr, TRUE)
                        ELSE m1
            IN [m2 EXCEPT !.loads.headersParsed[tr] = TRUE]
       ELSE headersCallback([m EXCEPT !.files[src].state = "ERROR"], tr, FALSE)

\* Completion of fetchCues inside loadExtraDataParallel.
onCuesParsed(m, tr, success) ==
  LET src == m.S[tr].source
  IN IF success
       THEN LET m1 == [m EXCEPT !.files[src] = parseCues_(@)]
                m2 == IF m1.loads.headersParsed[tr]
                        THEN LET l == [m1 EXCEPT !.files[src].state = "HEADERS_LOADED"]
                             IN IF IsNull(l.files[src].cues_)
                                  THEN headersCallback(l, tr, FALSE)
                                  ELSE headersCallback(
                                         [l EXCEPT !.files[src] = squishCues(@)],
                                         tr, TRUE)
                        ELSE m1
            IN [m2 EXCEPT !.loads.cuesParsed[tr] = TRUE]
       ELSE headersCallback([m EXCEPT !.files[src].state = "ERROR"], tr, FALSE)

\* loadExtraDataParallel whose headersParsed flag starts out set.
C10_Mutant_loadExtraDataParallel(m, tr) ==
  [m EXCEPT !.files[m.S[tr].source] = [@ EXCEPT !.state = "PARSING_HEADERS",
                                               !.parser = TRUE],
            !.loads.header[tr] = "pending", !.loads.cues[tr] = "pending",
            !.loads.headersParsed[tr] = TRUE, !.loads.cuesParsed[tr] = FALSE]

\* loadExtraDataParallel up to its two requests, for a representation whose
\* url, header range and index range are set.
loadExtraDataParallel(m, tr) ==
  [m EXCEPT !.files[m.S[tr].source] = [@ EXCEPT !.state = "PARSING_HEADERS",
                                               !.parser = TRUE],
            !.loads.header[tr] = "pending", !.loads.cues[tr] = "pending",
            !.loads.headersParsed[tr] = FALSE, !.loads.cuesParsed[tr] = FALSE]

\* kind: what the manifest offers ("noVideo", "videoOnly", "audioVideo").
initializeFirstStreams_(m, kind) ==
  LET m1 == [m EXCEPT !.state = "PARSING_HEADERS"]
  IN IF kind = "noVideo" THEN onParseHeadersDone(m1, FALSE)
     ELSE [m1 EXCEPT !.S =
             IF kind = "audioVideo"
               THEN ("video" :> [NewStream("video") EXCEPT !.checkSwitching_ = TRUE])
                    @@ ("audio" :> NewStream("audio"))
               ELSE ("video" :> [NewStream("video") EXCEPT !.checkSwitching_ = TRUE])]

loadFirstHeadersParallel_(m, kind) ==
  LET m1 == initializeFirstStreams_(m, kind)
  IN IF kind = "noVideo" THEN m1
     ELSE IF hasAud(m1)
       THEN loadExtraDataParallel(loadExtraDataParallel(m1, "audio"), "video")
       ELSE loadExtraDataParallel(m1, "video")

\* sendCueData_ once the whole cue is buffered (sendFullChunks): one callback
\* with the cue's bytes and the descriptor of the cue that follows.  A buffer
\* is described by its track, cue offset, length and the sequence number of
\* the fetch that produced it.
sendCueData_(m, tr, f) ==
  LET res == getCueDescFromOffset(m.files[f.source], f.cueDesc.offset + f.cueDesc.size)
  IN IF IsNull(res) THEN onPartialCueDescDownload(m, tr, Null, f.seqNum, Null)
     ELSE onPartialCueDescDownload(
            m, tr,
            IF Val(res).offset = f.cueDesc.offset THEN Null ELSE res,
            f.seqNum,
            Some([track |-> tr, offset |-> f.cueDesc.offset,
                  length |-> f.cueDesc.size, seqNum |-> f.seqNum]))

\* mapWebMFiles: one AdaptiveWebMFile per representation of the manifest.
mapWebMFiles(kind) ==
  IF kind = "audioVideo" THEN ("video" :> NewFile) @@ ("audio" :> NewFile)
  ELSE IF kind = "videoOnly" THEN ("video" :> NewFile)
  ELSE EmptyMap

\* The loop of findVideoLowsetBandwidth from list position i on:
\* representationList is a sequence of [id, bandwidth], filesMap the set
\* of ids with a file in webMFilesMap_, representation the one chosen so far (Null for none)
\* and mediaBandwidth the bound so far (Null for Number.MAX_VALUE).
RECURSIVE lowestLoop(_, _, _, _, _)
lowestLoop(representationList, filesMap, i, representation, mediaBandwidth) ==
  IF i > Len(representationList) THEN representation
  ELSE LET r == representationList[i]
       IN IF IsNull(mediaBandwidth) \/ r.bandwidth < Val(mediaBandwidth)
            THEN lowestLoop(representationList, filesMap, i + 1, Some(r),
                            IF r.id \in filesMap THEN Some(r.bandwidth)
                            ELSE mediaBandwidth)
            ELSE lowestLoop(representationList, filesMap, i + 1,
                            representation, mediaBandwidth)

\* findVideoLowsetBandwidth(): the id whose file is returned, Null when the
\* map has no file for the representation the loop ends on.
findVideoLowsetBandwidth(representationList, filesMap) ==
  LET representation == lowestLoop(representationList, filesMap, 1, Null, Null)
  IN IF ~IsNull(representation) /\ Val(representation).id \in filesMap
       THEN Some(Val(representation).id)
       ELSE Null

\* ------------------------------------------------------- bitrate switching
\* The switch logic works on p: list (the representationList of the video
\* adaptation set, [id, bandwidth] each), files (webMFilesMap_, by id), vid
\* (the video stream's source id and cueDesc) and the controller's state.
BandwidthOf(representationList, id) ==
  LET i == CHOOSE k \in 1..Len(representationList) : representationList[k].id = id
  IN representationList[i].bandwidth

\* The loop of findNextLowestBandwidth from list position i on; nextWebM is
\* the representation found so far (Null for null).
RECURSIVE nextLowestLoop(_, _, _, _, _)
nextLowestLoop(representationList, filesMap, bandwidth, i, nextWebM) ==
  IF i > Len(representationList) THEN nextWebM
  ELSE LET mediaCheck == representationList[i]
       IN nextLowestLoop(
            representationList, filesMap, bandwidth, i + 1,
            IF /\ mediaCheck.bandwidth < bandwidth
               /\ (IsNull(nextWebM) \/ mediaCheck.bandwidth > Val(nextWebM).bandwidth)
               /\ mediaCheck.id \in filesMap
              THEN Some(mediaCheck) ELSE nextWebM)

\* The id of the file returned, Null for null.
findNextLowestBandwidth(representationList, filesMap, webM) ==
  LET nextWebM == nextLowestLoop(representationList, filesMap,
                                 BandwidthOf(representationList, webM), 1, Null)
  IN IF IsNull(nextWebM) THEN Null ELSE Some(Val(nextWebM).id)

RECURSIVE nextHighestLoop(_, _, _, _, _)
nextHighestLoop(representationList, filesMap, bandwidth, i, nextWebM) ==
  IF i > Len(representationList) THEN nextWebM
  ELSE LET mediaCheck == representationList[i]
       IN nextHighestLoop(
            representationList, filesMap, bandwidth, i + 1,
            IF /\ mediaCheck.bandwidth > bandwidth
               /\ (IsNull(nextWebM) \/ mediaCheck.bandwidth < Val(nextWebM).bandwidth)
               /\ mediaCheck.id \in filesMap
              THEN Some(mediaCheck) ELSE nextWebM)

\* findNextHighestBandwidth that returns the file of the highest bandwidth
\* above the current one instead of the nearest.
C35_Mutant_findNextHighestBandwidth(representationList, filesMap, webM) ==
  LET above == {i \in 1..Len(representationList) :
                  /\ representationList[i].bandwidth
                       > BandwidthOf(representationList, webM)
                  /\ representationList[i].id \in filesMap}
  IN IF above = {} THEN Null
     ELSE Some(representationList[
                 CHOOSE i \in above :
                   \A j \in above : representationList[i].bandwidth
                                      >= representationList[j].bandwidth].id)

findNextHighestBandwidth(representationList, filesMap, webM) ==
  LET nextWebM == nextHighestLoop(representationList, filesMap,
                                  BandwidthOf(representationList, webM), 1, Null)
  IN IF IsNull(nextWebM) THEN Null ELSE Some(Val(nextWebM).id)

\* switchVideoStream without the test of the cue's time.
C33_Mutant_switchVideoStream(p, switchWebM) ==
  IF IsNull(switchWebM) THEN [p |-> p, status |-> "error"]
  ELSE IF p.vid.source = Val(switchWebM) THEN [p |-> p, status |-> "ok"]
  ELSE IF ~canSeek(p.files[Val(switchWebM)]) THEN [p |-> p, status |-> "error"]
  ELSE LET res == getCueDescFromTime(p.files[Val(switchWebM)],
                                     Val(p.vid.cueDesc).time)
       IN IF IsNull(res) THEN [p |-> p, status |-> "threw"]
          ELSE [p |-> [p EXCEPT !.vid.source = Val(switchWebM),
                                !.vid.cueDesc = res],
                status |-> "ok"]

\* switchVideoStream(switchWebM): p afterwards and the status returned; when
\* getCueDescFromTime fails the log line reads the undeclared seekTime and
\* the call ends with a ReferenceError ("threw").
switchVideoStream(p, switchWebM) ==
  IF IsNull(switchWebM) THEN [p |-> p, status |-> "error"]
  ELSE IF p.vid.source = Val(switchWebM) THEN [p |-> p, status |-> "ok"]
  ELSE IF ~canSeek(p.files[Val(switchWebM)]) THEN [p |-> p, status |-> "error"]
  ELSE LET res == getCueDescFromTime(p.files[Val(switchWebM)],
                                     Val(p.vid.cueDesc).time)
       IN IF IsNull(res) THEN [p |-> p, status |-> "threw"]
          ELSE IF Val(res).time >= Val(p.vid.cueDesc).time
                 THEN [p |-> [p EXCEPT !.vid.source = Val(switchWebM),
                                       !.vid.cueDesc = res],
                       status |-> "ok"]
                 ELSE [p |-> p, status |-> "ok"]

\* calculateBuffer with timeList [120] and the reads of buffers[0].buffer and
\* buffers[0].seconds.toFixed(3) that follow it: the projected buffer, or
\* Null when a TypeError ends the evaluation (webMFile.parser is null, or
\* bufferSizeAfterTime returned an error status, which has no seconds).
bufferOf(node) == IF IsNull(node) THEN Null ELSE Some(Val(node).buffer)

calculateBuffer(webMFile, startTime, bandwidth, buffer) ==
  IF ~webMFile.parser THEN Null
  ELSE bufferOf(bufferSizeAfterTime(webMFile, startTime, 120, bandwidth, buffer))

\* The loop of the switch down from iteration i on: [threw, switchWebM].
\* switchDownStep is the body of one iteration once nextWebM and its
\* projection buffer120sec are known.
RECURSIVE switchDownLoop(_, _, _, _, _, _)
RECURSIVE switchDownStep(_, _, _, _, _, _, _)
switchDownStep(p, i, switchWebM, nextWebM, buffer120sec, bandwidth, buffer) ==
  IF IsNull(buffer120sec) THEN [threw |-> TRUE, switchWebM |-> switchWebM]
  ELSE IF FLess(Val(buffer120sec), Whole(5))
    THEN switchDownLoop(p, nextWebM, i + 1, Some(nextWebM), bandwidth, buffer)
  ELSE [threw |-> FALSE, switchWebM |-> Some(nextWebM)]

switchDownNext(p, i, switchWebM, nextWebM, bandwidth, buffer) ==
  IF IsNull(nextWebM) THEN [threw |-> FALSE, switchWebM |-> switchWebM]
  ELSE switchDownStep(p, i, switchWebM, Val(nextWebM),
                      calculateBuffer(p.files[Val(nextWebM)],
                                      Val(p.vid.cueDesc).time, bandwidth, buffer),
                      bandwidth, buffer)

switchDownLoop(p, currentVideo, i, switchWebM, bandwidth, buffer) ==
  IF i >= Len(p.list) THEN [threw |-> FALSE, switchWebM |-> switchWebM]
  ELSE switchDownNext(p, i, switchWebM,
                      findNextLowestBandwidth(p.list, DOMAIN p.files, currentVideo),
                      bandwidth, buffer)

\* The switch up once nextWebM and its projection are known.
switchUpStep(nextWebM, buffer120sec) ==
  IF IsNull(buffer120sec) THEN [threw |-> TRUE, switchWebM |-> Null]
  ELSE IF FLess(Whole(15), Val(buffer120sec))
    THEN [threw |-> FALSE, switchWebM |-> nextWebM]
  ELSE [threw |-> FALSE, switchWebM |-> Null]

switchUp(p, nextWebM, startTime, bandwidth, buffer) ==
  IF IsNull(nextWebM) THEN [threw |-> FALSE, switchWebM |-> Null]
  ELSE switchUpStep(nextWebM,
                    calculateBuffer(p.files[Val(nextWebM)], startTime,
                                    bandwidth, buffer))

\* The representation chosen from the projection of the current one.
chooseVideoStream(p, buffer120sec, startTime, bandwidth, buffer) ==
  IF IsNull(buffer120sec) THEN [threw |-> TRUE, switchWebM |-> Null]
  ELSE IF FLess(Val(buffer120sec), Whole(5))
    THEN switchDownLoop(p, p.vid.source, 0, Null, bandwidth, buffer)
  ELSE IF FLess(Whole(15), Val(buffer120sec))
    THEN switchUp(p, findNextHighestBandwidth(p.list, DOMAIN p.files, p.vid.source),
                  startTime, bandwidth, buffer)
  ELSE [threw |-> FALSE, switchWebM |-> Null]

\* if (switchWebM) switchVideoStream(switchWebM)
switchToChosen(p, res, switchWebM) ==
  [p |-> res.p, threw |-> res.status = "threw", switchWebM |-> switchWebM]

switchIfChosen(p, chosen) ==
  IF chosen.threw THEN [p |-> p, threw |-> TRUE, switchWebM |-> Null]
  ELSE IF IsNull(chosen.switchWebM)
    THEN [p |-> p, threw |-> FALSE, switchWebM |-> Null]
  ELSE switchToChosen(p, switchVideoStream(p, chosen.switchWebM),
                      chosen.switchWebM)

\* checkVideoStreamFutureTime with the download rate (lastKbpsAvgTime(5))
\* and the buffer (vid.lastTimeSent_ - currentTime) it reads: p afterwards,
\* whether a TypeError ended it, and the representation it chose (switchWebM).
checkVideoStreamFutureTimeOf(p, bandwidth, buffer) ==
  IF Len(p.list) = 0 THEN [p |-> p, threw |-> FALSE, switchWebM |-> Null]
  ELSE switchIfChosen(p,
         chooseVideoStream(p,
           calculateBuffer(p.files[p.vid.source], Val(p.vid.cueDesc).time,
                           bandwidth, buffer),
           Val(p.vid.cueDesc).time, bandwidth, buffer))

\* ------------------------------------------------------------ video element
\* What the element has received so far.
receive(s, c) ==
  IF c.kind = "append"
    THEN IF c.what = "init"
           THEN [s EXCEPT !.initAppends = @ + 1]
           ELSE [s EXCEPT !.clusterAppended = TRUE,
                          !.clusterBeforeInit = @ \/ s.initAppends = 0]
    ELSE IF c.what = "EOS_NO_ERROR"
           THEN [s EXCEPT !.eosNoError = @ + 1]
           ELSE [s EXCEPT !.eosDecodeErr = @ + 1]

RECURSIVE receiveAll(_, _)
receiveAll(s, calls) ==
  IF calls = <<>> THEN s ELSE receiveAll(receive(s, Head(calls)), Tail(calls))

\* The handler op, started in the current state, ends with the fields of m.
Commit(m, op, fetch) ==
  /\ state' = m.state
  /\ seekSequenceNum' = m.seq
  /\ seekTime' = m.seekTime
  /\ adaptiveStreams_' = m.S
  /\ webMFilesMap_' = m.files
  /\ loads' = m.loads
  /\ inflight' = m.inflight
  /\ timers' = m.timers
  /\ sourceState' = m.src
  /\ sink' = [receiveAll(sink, m.calls) EXCEPT
                !.initBlob = IF IsNull(m.blob) THEN @ ELSE m.blob,
                !.reports = @ + m.reports]
  /\ step' = [op |-> op, from |-> state, calls |-> m.calls, pushed |-> m.pushed,
              fetch |-> fetch,
              sought |-> IF op = "doSeeking" /\ state # "SEEKING" THEN state
                         ELSE step.sought]
  /\ call' = call

NoLoads ==
  [header |-> [tr \in Tracks |-> "none"], cues |-> [tr \in Tracks |-> "none"],
   headersParsed |-> [tr \in Tracks |-> FALSE],
   cuesParsed |-> [tr \in Tracks |-> FALSE],
   downloaded |-> [tr \in Tracks |-> FALSE]]

\* ---------------------------------------------------- DashPlayer's handlers
\* webkitsourceopen: doOpen(loadFirstHeadersParallel_)
OpenEvent ==
  /\ player = "dash"
  /\ openEvents > 0
  /\ openEvents' = openEvents - 1
  /\ LET m == [Machine EXCEPT !.src = "open"]
     IN IF state # "STOPPED"
          THEN manifest' = manifest /\ Commit(m, "doOpen", Null)
          ELSE IF manifest = "none"
                 THEN manifest' = "loading" /\ Commit(m, "doOpen", Null)
                 ELSE manifest' = manifest
                      /\ Commit(loadFirstHeadersParallel_(m, manifest), "doOpen", Null)
  /\ UNCHANGED <<player, webm>>

\* Completion of dashParser.load inside parseManifest.
ManifestLoaded ==
  /\ player = "dash"
  /\ manifest = "loading"
  /\ \E kind \in {"failed", "noVideo", "videoOnly", "audioVideo"} :
       /\ manifest' = kind
       /\ IF kind = "failed"
            THEN Commit(onParseHeadersDone(Machine, FALSE), "parseManifest", Null)
            ELSE Commit(loadFirstHeadersParallel_(
                          [Machine EXCEPT !.files = mapWebMFiles(kind)], kind),
                        "parseManifest", Null)
  /\ UNCHANGED <<player, openEvents, webm>>

HeaderRequestDone(tr) ==
  /\ player = "dash"
  /\ loads.header[tr] = "pending"
  /\ \/ \E img \in ImagesFor(tr, hasAud(Machine)) :
          Commit(onHeadersParsed([Machine EXCEPT !.loads.header[tr] = "ok"],
                                 tr, TRUE, img), "headerLoaded", Null)
     \/ Commit(onHeadersParsed([Machine EXCEPT !.loads.header[tr] = "failed"],
                                tr, FALSE, Null), "headerFailed", Null)
  /\ UNCHANGED <<player, manifest, openEvents, webm>>

CuesRequestDone(tr) ==
  /\ player = "dash"
  /\ loads.cues[tr] = "pending"
  /\ \/ Commit(onCuesParsed([Machine EXCEPT !.loads.cues[tr] = "ok"], tr, TRUE),
               "cuesLoaded", Null)
     \/ Commit(onCuesParsed([Machine EXCEPT !.loads.cues[tr] = "failed"], tr, FALSE),
               "cuesFailed", Null)
  /\ UNCHANGED <<player, manifest, openEvents, webm>>

\* The byte refill of a cue succeeded: sendCueData_ runs the fetch's callback.
FetchDelivered(tr) ==
  /\ player = "dash"
  /\ inflight[tr] # <<>>
  /\ LET f == Head(inflight[tr])
     IN Commit(sendCueData_([Machine EXCEPT !.inflight[tr] = Tail(@)], tr, f),
               "fetchDelivered", Some([track |-> tr, seqNum |-> f.seqNum]))
  /\ UNCHANGED <<player, manifest, openEvents, webm>>

\* The byte refill failed: the callback sendCueData_ gave to fetchBytes reads
\* this.log with this undefined (strict mode) and ends with a TypeError before
\* doneCallback(null, null); the controller is never called.
FetchFailed(tr) ==
  /\ player = "dash"
  /\ inflight[tr] # <<>>
  /\ LET f == Head(inflight[tr])
     IN Commit([Machine EXCEPT !.inflight[tr] = Tail(@)], "fetchFailed",
               Some([track |-> tr, seqNum |-> f.seqNum]))
  /\ UNCHANGED <<player, manifest, openEvents, webm>>

StartSeekTimer ==
  /\ player = "dash"
  /\ timers.startSeek > 0
  /\ Commit(startSeek([Machine EXCEPT !.timers.startSeek = @ - 1]), "startSeek", Null)
  /\ UNCHANGED <<player, manifest, openEvents, webm>>

SendPartialClustersTimer ==
  /\ player = "dash"
  /\ timers.sendPartialClusters > 0
  /\ Commit(sendPartialClusters([Machine EXCEPT !.timers.sendPartialClusters = @ - 1]),
            "sendPartialClusters", Null)
  /\ UNCHANGED <<player, manifest, openEvents, webm>>

\* 'seeking' event of the video element
SeekingEvent ==
  /\ player = "dash"
  /\ seekSequenceNum < MaxSeeks
  /\ \E currentTime \in SeekTimes :
       Commit(doSeeking(Machine, currentTime), "doSeeking", Null)
  /\ UNCHANGED <<player, manifest, openEvents, webm>>

\* webkitsourceclose event
CloseEvent ==
  /\ player = "dash"
  /\ sourceState # "closed"
  /\ Commit(doClose([Machine EXCEPT !.src = "closed"]), "doClose", Null)
  /\ UNCHANGED <<player, manifest, openEvents, webm>>

\* -------------------------------------------------------------- WebMPlayer
\* WebMPlayer.cluster_queue_threshold
cluster_queue_threshold == 30

\* The fields of a new WebMPlayer and of its WebMFileParser; the requests owed
\* a completion (headerReq: doParseHeaders, indexReq: its fetchIndex,
\* seekIndexReqs: fetchIndex on behalf of getClusterOffset, clusterReqs:
\* getCluster); the pending timers; whether the listeners are still attached;
\* the number of stalled / timeupdate / progress events that asked for data.
NewWebMPlayer ==
  [clusters_to_send |-> 0, cluster_offset |-> -1, cluster_queue |-> <<>>,
   fetching_clusters |-> FALSE, end_of_clusters |-> FALSE, parser |-> NewFile,
   headerReq |-> "none", indexReq |-> "none", seekIndexReqs |-> <<>>,
   clusterReqs |-> <<>>, timers |-> [startSeek |-> 0, sendClusters |-> 0],
   listening |-> TRUE, stalls |-> 0]

\* A WebMPlayer handler works on w: state, seq (sequence_num), seekTime
\* (seek_time), src, calls, blob, reports, pushed as for DashPlayer, and p,
\* the record of the player's own fields.
WebMMachine ==
  [state |-> state, seq |-> seekSequenceNum, seekTime |-> seekTime,
   src |-> sourceState, calls |-> <<>>, blob |-> Null, reports |-> 0,
   pushed |-> FALSE, p |-> webm]

WebMPlayer_reportDecodeError(w) ==
  webkitSourceEndOfStream([w EXCEPT !.state = "ERROR", !.reports = @ + 1],
                          "EOS_DECODE_ERR")

WebMPlayer_appendData(w, what) ==
  IF w.state = "LOADING"
    THEN [w EXCEPT !.calls = Append(@, [kind |-> "append", what |-> what])]
    ELSE w

WebMPlayer_endOfStream(w) == webkitSourceEndOfStream(w, "EOS_NO_ERROR")

WebMPlayer_fetchMoreClusters(w) ==
  IF ~w.p.end_of_clusters /\ ~w.p.fetching_clusters
     /\ Len(w.p.cluster_queue) < cluster_queue_threshold
    THEN [w EXCEPT !.p.fetching_clusters = TRUE,
                   !.p.clusterReqs = Append(@, [offset |-> w.p.cluster_offset,
                                                seq_num |-> w.seq])]
    ELSE w

\* The while loop of sendClusters.
RECURSIVE WebMPlayer_sendLoop(_)
WebMPlayer_sendLoop(w) ==
  IF Len(w.p.cluster_queue) > 0 /\ w.p.clusters_to_send > 0
    THEN WebMPlayer_sendLoop(
           [WebMPlayer_appendData(w, "cluster") EXCEPT
              !.p.cluster_queue = Tail(@), !.p.clusters_to_send = @ - 1])
    ELSE w

WebMPlayer_sendClusters(w, ct) ==
  WebMPlayer_fetchMoreClusters(
    WebMPlayer_sendLoop([w EXCEPT !.p.clusters_to_send = @ + ct]))

getFirstClusterOffset(parser) ==
  IF "CLUSTER" \in DOMAIN parser.seekHead_ THEN parser.seekHead_["CLUSTER"] ELSE -1

WebMPlayer_onParseHeadersDone(w, success) ==
  IF ~success THEN WebMPlayer_reportDecodeError(w)
  ELSE
    LET info == w.p.parser.infoElement_
        tracks == w.p.parser.tracksElement_
    IN IF IsNull(info) THEN WebMPlayer_reportDecodeError(w)
       ELSE IF IsNull(tracks) THEN WebMPlayer_reportDecodeError(w)
       ELSE
         LET info_tracks == infoTracksOf(Val(info), Val(tracks))
             w1 == [WebMPlayer_appendData([w EXCEPT !.state = "LOADING"], "init")
                      EXCEPT !.blob = Some(info_tracks),
                             !.p.cluster_offset = getFirstClusterOffset(w.p.parser)]
         IN IF w1.p.cluster_offset = -1 THEN WebMPlayer_reportDecodeError(w1)
            ELSE WebMPlayer_sendClusters(w1, 10)

RECURSIVE WebMPlayer_startSeek(_)
WebMPlayer_onGetClusterOffsetDone(w, seq_num, offset) ==
  IF seq_num # w.seq THEN WebMPlayer_startSeek(w)
  ELSE WebMPlayer_sendClusters(
         [w EXCEPT !.p.cluster_offset = offset, !.state = "LOADING"], 10)

\* getClusterOffset: with the cues parsed the callback runs at once; without
\* them fetchIndex is started, and reading 'CUES' in a null seekHead ends the
\* handler with a TypeError.
WebMPlayer_startSeek(w) ==
  LET w1 == [w EXCEPT !.p.end_of_clusters = FALSE, !.p.cluster_queue = <<>>]
      parser == w1.p.parser
  IN IF IsNull(parser.cues_)
       THEN IF "CUES" \in DOMAIN parser.seekHead_
              THEN [w1 EXCEPT !.p.seekIndexReqs =
                      Append(@, [seq_num |-> w.seq, seek_time |-> w.seekTime])]
              ELSE w1
       ELSE LET cues == Val(parser.cues_)
                l == getCueIndexFromTime_(cues, w.seekTime)
            IN WebMPlayer_onGetClusterOffsetDone(w1, w.seq, cues[l + 1].cueClusterPos)

WebMPlayer_doSeeking(w, currentTime) ==
  LET w1 == [w EXCEPT !.seq = @ + 1, !.seekTime = currentTime]
  IN IF w1.state = "SEEKING" THEN w1
     ELSE LET w2 == [w1 EXCEPT !.state = "SEEKING"]
          IN IF w2.p.fetching_clusters THEN w2 ELSE WebMPlayer_startSeek(w2)

WebMPlayer_doClose(w) ==
  IF w.state = "STOPPED" THEN w
  ELSE [w EXCEPT !.state = "STOPPED", !.p.listening = FALSE]

\* The callback fetchMoreClusters hands to getCluster.
WebMPlayer_onCluster(w, seq_num, next_cluster_offset, buf) ==
  LET w1 == [w EXCEPT !.p.fetching_clusters = FALSE]
  IN IF w1.state = "SEEKING"
       THEN [w1 EXCEPT !.p.timers.startSeek = @ + 1]
     ELSE IF w1.state = "STOPPED" THEN w1
     ELSE IF w1.state # "LOADING" THEN w1
     ELSE IF seq_num = w1.seq
       THEN LET w2 == [w1 EXCEPT !.p.cluster_offset = next_cluster_offset]
            IN IF IsNull(buf)
                 THEN WebMPlayer_endOfStream([w2 EXCEPT !.p.end_of_clusters = TRUE])
                 ELSE [w2 EXCEPT !.p.cluster_queue = Append(@, Val(buf)),
                                 !.pushed = TRUE,
                                 !.p.timers.sendClusters = @ + 1]
       ELSE [w1 EXCEPT !.p.timers.sendClusters = @ + 1]

WebMCommit(w, op, fetch) ==
  /\ state' = w.state
  /\ seekSequenceNum' = w.seq
  /\ seekTime' = w.seekTime
  /\ sourceState' = w.src
  /\ webm' = w.p
  /\ sink' = [receiveAll(sink, w.calls) EXCEPT
                !.initBlob = IF IsNull(w.blob) THEN @ ELSE w.blob,
                !.reports = @ + w.reports]
  /\ step' = [op |-> op, from |-> state, calls |-> w.calls, pushed |-> w.pushed,
              fetch |-> fetch,
              sought |-> IF op = "doSeeking" /\ state # "SEEKING" THEN state
                         ELSE step.sought]
  /\ call' = call
  /\ UNCHANGED <<player, manifest, adaptiveStreams_, webMFilesMap_, loads, inflight,
                 timers>>

\* A Cluster element of 50 bytes lies at each of these offsets; anywhere else
\* fetchElement_ finds no Cluster id and getCluster reports (-1, null).
ClusterAt(offset) == \E i \in 1..NumCues : offset = 100 + 50 * (i - 1)

\* webkitsourceopen
WebMOpenEvent ==
  /\ player = "webm"
  /\ openEvents > 0
  /\ webm.listening
  /\ openEvents' = openEvents - 1
  /\ LET w == [WebMMachine EXCEPT !.src = "open"]
     IN IF state = "STOPPED"
          THEN WebMCommit([w EXCEPT !.state = "PARSING_HEADERS",
                                    !.p.headerReq = "pending"], "doOpen", Null)
          ELSE WebMCommit(w, "doOpen", Null)

\* doParseHeaders once its bytes have arrived: the headers parse and fetchIndex
\* asks for the Cues element, or the request / the parse fails.
WebMHeadersFetched ==
  /\ player = "webm"
  /\ webm.headerReq = "pending"
  /\ openEvents' = openEvents
  /\ LET w == [WebMMachine EXCEPT !.p.headerReq = "done"]
     IN \/ \E img \in HeaderImages :
             WebMCommit([w EXCEPT !.p.parser = parseSegmentHeaders(@, img),
                                  !.p.indexReq = "pending"], "headersParsed", Null)
        \/ WebMCommit(WebMPlayer_onParseHeadersDone(w, FALSE), "headersFailed", Null)

\* Completion of the fetchIndex started by doParseHeaders.
WebMIndexFetched ==
  /\ player = "webm"
  /\ webm.indexReq = "pending"
  /\ openEvents' = openEvents
  /\ LET w == [WebMMachine EXCEPT !.p.indexReq = "done"]
     IN \/ WebMCommit(WebMPlayer_onParseHeadersDone(
                        [w EXCEPT !.p.parser = parseCues_(@)], TRUE),
                      "indexParsed", Null)
        \/ WebMCommit(WebMPlayer_onParseHeadersDone(w, FALSE), "indexFailed", Null)

\* Completion of a fetchIndex started by getClusterOffset: on success
\* getClusterOffset runs again with the cues parsed, on failure it reports
\* (-1, -1).
WebMSeekIndexFetched ==
  /\ player = "webm"
  /\ openEvents' = openEvents
  /\ \E i \in 1..Len(webm.seekIndexReqs) :
       LET r == webm.seekIndexReqs[i]
           w == [WebMMachine EXCEPT !.p.seekIndexReqs =
                   SubSeq(@, 1, i - 1) \o SubSeq(@, i + 1, Len(@))]
       IN \/ LET w1 == [w EXCEPT !.p.parser = parseCues_(@)]
                 cues == Val(w1.p.parser.cues_)
                 l == getCueIndexFromTime_(cues, r.seek_time)
             IN WebMCommit(WebMPlayer_onGetClusterOffsetDone(
                             w1, r.seq_num, cues[l + 1].cueClusterPos),
                           "seekIndexParsed", Null)
          \/ WebMCommit(WebMPlayer_onGetClusterOffsetDone(w, r.seq_num, -1),
                        "seekIndexFailed", Null)

\* Completion of getCluster.
WebMClusterFetched ==
  /\ player = "webm"
  /\ webm.clusterReqs # <<>>
  /\ openEvents' = openEvents
  /\ LET f == Head(webm.clusterReqs)
         w == [WebMMachine EXCEPT !.p.clusterReqs = Tail(@)]
         got == Some([seq_num |-> f.seq_num])
     IN \/ /\ ClusterAt(f.offset)
           /\ WebMCommit(WebMPlayer_onCluster(
                           w, f.seq_num, f.offset + 50,
                           Some([offset |-> f.offset, length |-> 50,
                                 seqNum |-> f.seq_num])),
                         "clusterFetched", Some([track |-> "webm", seqNum |-> f.seq_num]))
        \/ WebMCommit(WebMPlayer_onCluster(w, f.seq_num, -1, Null),
                      "clusterFailed", Some([track |-> "webm", seqNum |-> f.seq_num]))

WebMStartSeekTimer ==
  /\ player = "webm"
  /\ webm.timers.startSeek > 0
  /\ openEvents' = openEvents
  /\ WebMCommit(WebMPlayer_startSeek(
                  [WebMMachine EXCEPT !.p.timers.startSeek = @ - 1]),
                "startSeek", Null)

WebMSendClustersTimer ==
  /\ player = "webm"
  /\ webm.timers.sendClusters > 0
  /\ openEvents' = openEvents
  /\ WebMCommit(WebMPlayer_sendClusters(
                  [WebMMachine EXCEPT !.p.timers.sendClusters = @ - 1], 0),
                "sendClusters", Null)

\* 'seeking' event
WebMSeekingEvent ==
  /\ player = "webm"
  /\ webm.listening
  /\ seekSequenceNum < MaxSeeks
  /\ openEvents' = openEvents
  /\ \E currentTime \in SeekTimes :
       WebMCommit(WebMPlayer_doSeeking(WebMMachine, currentTime), "doSeeking", Null)

\* 'stalled' / 'timeupdate' / 'progress' event with less than
\* buffer_ahead_threshold seconds buffered ahead, while LOADING.
WebMStalledEvent ==
  /\ player = "webm"
  /\ webm.listening
  /\ state = "LOADING"
  /\ webm.stalls < MaxStalls
  /\ openEvents' = openEvents
  /\ WebMCommit(WebMPlayer_sendClusters(
                  [WebMMachine EXCEPT !.p.stalls = @ + 1], 1), "doStalled", Null)

\* webkitsourceclose
WebMCloseEvent ==
  /\ player = "webm"
  /\ webm.listening
  /\ sourceState # "closed"
  /\ openEvents' = openEvents
  /\ WebMCommit(WebMPlayer_doClose([WebMMachine EXCEPT !.src = "closed"]),
                "doClose", Null)

\* The page has constructed one player and has pointed the video element at
\* the media source: a webkitsourceopen event is on its way.
Init ==
  /\ player \in {"dash", "webm"}
  /\ state = "STOPPED"
  /\ seekSequenceNum = 0
  /\ seekTime = 0
  /\ manifest = "none"
  /\ adaptiveStreams_ = EmptyMap
  /\ webMFilesMap_ = EmptyMap
  /\ loads = NoLoads
  /\ inflight = [tr \in Tracks |-> <<>>]
  /\ timers = [startSeek |-> 0, sendPartialClusters |-> 0]
  /\ sourceState = "closed"
  /\ openEvents = 1
  /\ webm = IF player = "webm" THEN NewWebMPlayer ELSE <<>>
  /\ sink = [initAppends |-> 0, initBlob |-> Null, clusterAppended |-> FALSE,
             clusterBeforeInit |-> FALSE, eosNoError |-> 0, eosDecodeErr |-> 0,
             reports |-> 0]
  /\ step = [op |-> "new", from |-> "STOPPED", calls |-> <<>>, pushed |-> FALSE,
             fetch |-> Null, sought |-> "none"]
  /\ call = [fn |-> "none"]

Next ==
  \/ OpenEvent
  \/ ManifestLoaded
  \/ \E tr \in Tracks : HeaderRequestDone(tr)
  \/ \E tr \in Tracks : CuesRequestDone(tr)
  \/ \E tr \in Tracks : FetchDelivered(tr)
  \/ \E tr \in Tracks : FetchFailed(tr)
  \/ StartSeekTimer
  \/ SendPartialClustersTimer
  \/ SeekingEvent
  \/ CloseEvent
  \/ WebMOpenEvent
  \/ WebMHeadersFetched
  \/ WebMIndexFetched
  \/ WebMSeekIndexFetched
  \/ WebMClusterFetched
  \/ WebMStartSeekTimer
  \/ WebMSendClustersTimer
  \/ WebMSeekingEvent
  \/ WebMStalledEvent
  \/ WebMCloseEvent

Spec == Init /\ [][Next]_vars

\* ------------------------------------------- functions applied on their own
\* A second specification: the players stay as constructed and one function
\* of the stream or of the parser is applied to an argument drawn from a
\* bounded set; call records the application, one per behaviour.
MainVars ==
  <<player, state, seekSequenceNum, seekTime, manifest, adaptiveStreams_,
    webMFilesMap_, loads, inflight, timers, sourceState, openEvents, webm, sink,
    step>>

CallInit == Init /\ player = "dash"

\* Values clusterQueueThreshold may hold when resetStreamData runs: the
\* prototype's value and one the page assigned.
Thresholds == {ClusterQueueThreshold, 5}

\* Streams as resetStreamData may find them: up to two queued clusters.
QueuedCueDescs ==
  {<<>>, <<[time |-> 0, offset |-> 100, size |-> 50, endTime |-> 30]>>,
   <<[time |-> 0, offset |-> 100, size |-> 50, endTime |-> 30],
     [time |-> 30, offset |-> 150, size |-> 50, endTime |-> 60]>>}

BuffersFor(descs) ==
  [i \in 1..Len(descs) |->
     [track |-> "video", offset |-> descs[i].offset, length |-> descs[i].size,
      seqNum |-> 0]]

StreamInputs ==
  { [checkSwitching_ |-> sw, cueDescQueue |-> q, clusterQueue |-> BuffersFor(q),
     clusterQueueThreshold |-> th, cueBytesDownloaded_ |-> 0,
     fetchingClusters_ |-> fc, endOfClusters_ |-> eoc,
     lastTimeSent_ |-> IF q = <<>> THEN 0 ELSE q[1].time,
     source |-> src, cueDesc |-> Null] :
      sw \in BOOLEAN, q \in QueuedCueDescs, th \in Thresholds, fc \in BOOLEAN,
      eoc \in BOOLEAN, src \in Tracks }

resetStreamDataCall ==
  /\ call.fn = "none"
  /\ \E s \in StreamInputs :
       call' = [fn |-> "resetStreamData", arg |-> s, out |-> resetStreamData(s)]
  /\ UNCHANGED MainVars

\* Cue lists handed to squishCues: up to MaxCueLen cue points in time order
\* (10 s apart), each pointing at any of three cluster offsets.
CueOffsets == {100, 250, 400}

CueListsOfLen(n) ==
  { [k \in 1..n |-> [cueTime |-> 10 * (k - 1), cueClusterPos |-> pos[k]]] :
      pos \in [1..n -> CueOffsets] }

CueLists == UNION {CueListsOfLen(n) : n \in 0..MaxCueLen}

\* squishCues() called on a parser holding the list, and called once more.
squishCuesCall ==
  /\ call.fn = "none"
  /\ \E l \in CueLists :
       LET once == squishCues([NewFile EXCEPT !.cues_ = Some(l)])
       IN call' = [fn |-> "squishCues", arg |-> l, out |-> Val(once.cues_),
                   again |-> Val(squishCues(once).cues_)]
  /\ UNCHANGED MainVars

\* Targets of the searches: below the first cue, between cues, on cues and
\* beyond the last one.
SearchTimes == {5 * k - 5 : k \in 0..(2 * MaxCueLen + 1)}
SearchOffsets == {50, 100, 120, 250, 300, 400, 450}

\* A parser holding the cue list l: the Cues element starts at byte 500 and
\* the Info element gave a duration past the last cue.
ParserWith(l) ==
  [NewFile EXCEPT !.cues_ = Some(l), !.seekHead_ = ("CUES" :> 500),
                  !.duration_ = 10 * Len(l)]

getCueIndexFromTimeCall ==
  /\ call.fn = "none"
  /\ \E l \in CueLists \ {<<>>}, time \in SearchTimes :
       call' = [fn |-> "getCueIndexFromTime_", arg |-> l, target |-> time,
                out |-> getCueIndexFromTime_(l, time)]
  /\ UNCHANGED MainVars

getCueDescFromOffsetCall ==
  /\ call.fn = "none"
  /\ \E l \in CueLists \ {<<>>}, offset \in SearchOffsets :
       call' = [fn |-> "getCueDescFromOffset", arg |-> l, target |-> offset,
                out |-> Val(getCueDescFromOffset(ParserWith(l), offset))]
  /\ UNCHANGED MainVars

\* Where the Cues element starts: after the clusters or in front of them.
CuesStarts == {500, 60}

getCueDescFromCueCall ==
  /\ call.fn = "none"
  /\ \E l \in CueLists \ {<<>>}, cuesAt \in CuesStarts :
       \E index \in 0..(Len(l) - 1) :
         LET parser == [ParserWith(l) EXCEPT !.seekHead_ = ("CUES" :> cuesAt)]
         IN call' = [fn |-> "getCueDescFromCue_", arg |-> l, index |-> index,
                     cuesAt |-> cuesAt, duration |-> parser.duration_,
                     out |-> getCueDescFromCue_(parser, index)]
  /\ UNCHANGED MainVars

\* Bytes that follow the first byte of an encoded number.
FillBytes == {0, 66, 255}

\* The encodings of length n whose first byte carries the length marker
\* (bit 8 - n, every higher bit clear) and the payload bits low.
EncodingsOfLen(n) ==
  {<<2 ^ (8 - n) + low>> \o [k \in 1..(n - 1) |-> fill] :
     low \in {0, IF n = 8 THEN 0 ELSE 1}, fill \in FillBytes}

IdEncodings == UNION {EncodingsOfLen(n) : n \in 1..4}
SizeEncodings == UNION {EncodingsOfLen(n) : n \in 1..8}

\* parseNum_ on the first avail bytes of an encoded number, as an ID
\* (4 bytes at most, marker kept) or as a size (8 bytes at most, marker
\* masked).
parseNumCall ==
  /\ call.fn = "none"
  /\ \E asId \in BOOLEAN :
       \E enc \in (IF asId THEN IdEncodings ELSE SizeEncodings) :
         \E avail \in 0..Len(enc) :
           call' = [fn |-> "parseNum_", arg |-> enc, avail |-> avail,
                    asId |-> asId,
                    out |-> parseNum_(SubSeq(enc, 1, avail), 0, avail,
                                      IF asId THEN 4 ELSE 8, ~asId)]
  /\ UNCHANGED MainVars

\* parseElementHeader on the first avail bytes of an ID followed by a size.
parseElementHeaderCall ==
  /\ call.fn = "none"
  /\ \E id \in IdEncodings, sz \in UNION {EncodingsOfLen(n) : n \in 1..3} :
       \E avail \in 0..(Len(id) + Len(sz)) :
         call' = [fn |-> "parseElementHeader", arg |-> id \o sz,
                  idLen |-> Len(id), avail |-> avail,
                  out |-> parseElementHeader(SubSeq(id \o sz, 1, avail),
                                             0, avail)]
  /\ UNCHANGED MainVars

\* Cue tables for the projection: clusters of 10 s each, small or large.
ClusterSizes == {1000, 9000}

RECURSIVE SumTo(_, _)
SumTo(sizes, k) == IF k = 0 THEN 0 ELSE sizes[k] + SumTo(sizes, k - 1)

ProjectionParser(sizes) ==
  [NewFile EXCEPT
     !.cues_ = Some([k \in 1..Len(sizes) |->
                       [cueTime |-> 10 * (k - 1),
                        cueClusterPos |-> 100 + SumTo(sizes, k - 1)]]),
     !.seekHead_ = ("CUES" :> 100 + SumTo(sizes, Len(sizes))),
     !.duration_ = 10 * Len(sizes)]

DownloadRates == {7, 8, 9, 16}

\* bufferSizeAfterTime twice on the same table, start, horizon and buffer,
\* with a lower and a higher download rate.
bufferSizeAfterTimeCall ==
  /\ call.fn = "none"
  /\ \E n \in 1..MaxCueLen :
       \E sizes \in [1..n -> ClusterSizes], time \in {0, 5},
          timeToSearch \in {1, 12}, buffer \in {0, 3},
          lo \in DownloadRates, hi \in DownloadRates :
         /\ lo < hi
         /\ LET parser == ProjectionParser(sizes)
            IN call' = [fn |-> "bufferSizeAfterTime", arg |-> sizes,
                        time |-> time, timeToSearch |-> timeToSearch,
                        buffer |-> buffer, lo |-> lo, hi |-> hi,
                        outLo |-> Val(bufferSizeAfterTime(
                                        parser, time, timeToSearch, lo, buffer)),
                        outHi |-> Val(bufferSizeAfterTime(
                                        parser, time, timeToSearch, hi, buffer))]
  /\ UNCHANGED MainVars

\* canSeek on a source without a parser, on one whose Cues were not parsed,
\* and on one whose Cues element held the cue points l (none for <<>>).
canSeekCall ==
  /\ call.fn = "none"
  /\ \E file \in {NewFile, [NewFile EXCEPT !.parser = TRUE]}
                 \cup {[ParserWith(l) EXCEPT !.parser = TRUE] : l \in CueLists} :
       call' = [fn |-> "canSeek", arg |-> file, out |-> canSeek(file)]
  /\ UNCHANGED MainVars

\* A parser taken through a few of its operations: call.parser is the parser
\* after the operation call.fn, call.before the parser before it, and
\* call.supplied the duration setDuration was last given, if any.
ParserNow ==
  IF call.fn = "none" THEN [NewFile EXCEPT !.parser = TRUE] ELSE call.parser

ParserOp(fn, after, supplied) ==
  /\ \/ call.fn = "none"
     \/ "steps" \in DOMAIN call /\ call.steps < MaxParserOps
  /\ call' = [fn |-> fn, parser |-> after, before |-> ParserNow,
              steps |-> IF call.fn = "none" THEN 1 ELSE call.steps + 1,
              supplied |-> supplied]
  /\ UNCHANGED MainVars

SuppliedNow == IF call.fn = "none" THEN Null ELSE call.supplied

parseSegmentHeadersCall ==
  \E img \in HeaderImages :
    ParserOp("parseSegmentHeaders", parseSegmentHeaders(ParserNow, img),
             SuppliedNow)

setSegmentOffsetCall ==
  \E offset \in {-1, 0, 40, 48} :
    ParserOp("setSegmentOffset", setSegmentOffset(ParserNow, offset),
             SuppliedNow)

setDurationCall ==
  \E duration \in {45, FileDuration} :
    ParserOp("setDuration", setDuration(ParserNow, duration), Some(duration))

\* fetchCues(offset, size, segmentOffset, doneCallback) with its fetch
\* failing or delivering the Cues element.
fetchCuesCall ==
  \E segmentOffset \in {-1, 40}, success \in BOOLEAN :
    LET f == setSegmentOffset(ParserNow, segmentOffset)
    IN ParserOp("fetchCues", IF success THEN parseCues_(f) ELSE f, SuppliedNow)

\* fetchCuesUnbuffered(offset, size, segmentOffset, doneCallback): the offset
\* of the Cues element is what it hands to setSegmentOffset; its completion
\* reads a variable that does not exist and stores nothing.
fetchCuesUnbufferedCall ==
  ParserOp("fetchCuesUnbuffered",
           setSegmentOffset(ParserNow, CuesElementOffset), SuppliedNow)

\* Elements a Segment is walked over: ID bytes, declared payload size and the
\* payload bytes the buffer holds. The Cluster and the cut Info declare more
\* than the buffer holds; 0x4286 is not an ID of the Segment schema.
SegmentElements ==
  { [name |-> "info", id |-> <<21, 73, 169, 102>>, size |-> 2, data |-> <<7, 8>>],
    [name |-> "tracks", id |-> <<22, 84, 174, 107>>, size |-> 1, data |-> <<9>>],
    [name |-> "skip", id |-> <<236>>, size |-> 1, data |-> <<0>>],
    [name |-> "skip", id |-> <<28, 83, 187, 107>>, size |-> 2, data |-> <<1, 2>>],
    [name |-> "stop", id |-> <<31, 67, 182, 117>>, size |-> 100, data |-> <<5>>],
    [name |-> "cut", id |-> <<21, 73, 169, 102>>, size |-> 4, data |-> <<7>>],
    [name |-> "unknown", id |-> <<66, 134>>, size |-> 1, data |-> <<1>>] }

ElementBytes(e) == e.id \o <<128 + e.size>> \o e.data

RECURSIVE BytesOf(_)
BytesOf(es) == IF es = <<>> THEN <<>> ELSE ElementBytes(Head(es)) \o BytesOf(Tail(es))

\* parseList_ with the Segment schema over up to three elements that follow
\* start bytes of something else.
parseListCall ==
  /\ call.fn = "none"
  /\ \E n \in 0..3 :
       \E es \in [1..n -> SegmentElements], start \in {0, 2} :
         LET buf == [k \in 1..start |-> 0] \o BytesOf(es)
         IN call' = [fn |-> "parseList_", arg |-> es, start |-> start,
                     out |-> parseList_(SEGMENT_IDS_, buf, start,
                                        Len(buf) - start, <<>>)]
  /\ UNCHANGED MainVars

\* The headers parsed from a buffer that holds the file header, the Segment
\* header and the elements es, the last of them possibly cut short; ebml is
\* the outcome of the file header's decoding. More bytes of the resource
\* follow the buffer.
doParseHeadersCall ==
  /\ call.fn = "none"
  /\ \E n \in 0..2, enough \in BOOLEAN,
        ebml \in {STATUS_OK, STATUS_NEED_MORE_DATA, STATUS_INVALID_DATA} :
       \E es \in [1..n -> SegmentElements] :
         LET buf == BytesOf(es)
             segment == parseList_(SEGMENT_IDS_, buf, 0, Len(buf), <<>>).status
         IN call' = [fn |-> "doParseHeaders", arg |-> es, got |-> enough,
                     ebml |-> ebml, segment |-> segment,
                     out |-> doParseHeaders(enough, ebml, segment)]
  /\ UNCHANGED MainVars

parseFirstHeadersCall ==
  /\ call.fn = "none"
  /\ \E n \in 0..2, success \in BOOLEAN,
        ebml \in {STATUS_OK, STATUS_NEED_MORE_DATA, STATUS_INVALID_DATA} :
       \E es \in [1..n -> SegmentElements] :
         LET buf == BytesOf(es)
             segment == parseList_(SEGMENT_IDS_, buf, 0, Len(buf), <<>>).status
         IN call' = [fn |-> "parseFirstHeaders", arg |-> es,
                     got |-> success, ebml |-> ebml, segment |-> segment,
                     out |-> parseFirstHeaders(success, ebml, segment)]
  /\ UNCHANGED MainVars

parseFirstHeadersUnbufferedCall ==
  /\ call.fn = "none"
  /\ \E n \in 0..2, fetched \in BOOLEAN,
        ebml \in {STATUS_OK, STATUS_NEED_MORE_DATA, STATUS_INVALID_DATA} :
       \E es \in [1..n -> SegmentElements] :
         LET buf == BytesOf(es)
             segment == parseList_(SEGMENT_IDS_, buf, 0, Len(buf), <<>>).status
         IN call' = [fn |-> "parseFirstHeadersUnbuffered", arg |-> es,
                     got |-> fetched, ebml |-> ebml, segment |-> segment,
                     out |-> parseFirstHeadersUnbuffered(fetched, ebml, segment)]
  /\ UNCHANGED MainVars

\* Up to three representations of distinct bandwidths in any order, any of
\* them with a file in the map.
findVideoLowsetBandwidthCall ==
  /\ call.fn = "none"
  /\ \E n \in 0..3 :
       \E bw \in [1..n -> {50, 100, 200}], files \in SUBSET (1..n) :
         /\ \A i, j \in 1..n : i # j => bw[i] # bw[j]
         /\ LET list == [i \in 1..n |-> [id |-> i, bandwidth |-> bw[i]]]
            IN call' = [fn |-> "findVideoLowsetBandwidth", arg |-> list,
                        files |-> files,
                        out |-> findVideoLowsetBandwidth(list, files)]
  /\ UNCHANGED MainVars

Representations ==
  [url : BOOLEAN, header : BOOLEAN, index : BOOLEAN, duration : {0, FileDuration}]

\* Files a load is started on: new, or loaded before.
LoadableFiles == {NewFile, [NewFile EXCEPT !.state = "HEADERS_LOADED", !.parser = TRUE]}

loadHeaderCall ==
  /\ call.fn = "none"
  /\ \E file \in LoadableFiles, rep \in Representations :
       call' = [fn |-> "loadHeader", arg |-> file, rep |-> rep,
                out |-> loadHeader(file, rep)]
  /\ UNCHANGED MainVars

loadIndexCall ==
  /\ call.fn = "none"
  /\ \E file \in LoadableFiles, rep \in Representations :
       call' = [fn |-> "loadIndex", arg |-> file, rep |-> rep,
                out |-> loadIndex(file, rep)]
  /\ UNCHANGED MainVars

loadExtraDataParallelCall ==
  /\ call.fn = "none"
  /\ \E file \in LoadableFiles, rep \in Representations :
       call' = [fn |-> "loadExtraDataParallel", arg |-> file, rep |-> rep,
                out |-> loadExtraDataParallelOf(file, rep)]
  /\ UNCHANGED MainVars

\* fetchCueData: the seek to cueDesc.offset, then one run of sendCueData_
\* with bufferSize bytes buffered from there on (nothing sent yet).  It ends
\* in the completion callback (the next descriptor, Null for null, and the
\* number of bytes handed over, Null for a null element) or in a fetchBytes
\* of size bytes, after which sendCueData_ runs again.
sendCueDataOf(parser, cueDesc, bufferSize) ==
  LET chunkSize == cueDesc.size
      chunkSizeLeft == chunkSize
      bytesToSend == IF bufferSize > chunkSizeLeft THEN chunkSizeLeft ELSE bufferSize
  IN IF bytesToSend = chunkSize
       THEN LET res == getCueDescFromOffset(parser, cueDesc.offset + cueDesc.size)
            IN IF IsNull(res)
                 THEN [kind |-> "callback", nextCueDesc |-> Null, element |-> Null]
                 ELSE [kind |-> "callback",
                       nextCueDesc |-> IF Val(res).offset = cueDesc.offset
                                         THEN Null ELSE res,
                       element |-> Some(IF bytesToSend < 0 THEN 0 ELSE bytesToSend)]
       ELSE LET sum == bufferSize + chunkSizeLeft
                size == IF sum > chunkSizeLeft THEN chunkSizeLeft ELSE sum
            IN IF bufferSize < size
                 THEN [kind |-> "fetchBytes", size |-> size]
                 ELSE [kind |-> "none"]

\* Bytes buffered at the cue's offset when sendCueData_ runs.
BufferSizes == {0, 40, 150, 400}

sendCueDataCall ==
  /\ call.fn = "none"
  /\ \E l \in CueLists \ {<<>>}, cuesAt \in CuesStarts, bufferSize \in BufferSizes :
       \E index \in 0..(Len(l) - 1) :
         LET parser == [ParserWith(l) EXCEPT !.seekHead_ = ("CUES" :> cuesAt)]
             cueDesc == getCueDescFromCue_(parser, index)
         IN call' = [fn |-> "sendCueData_", arg |-> l, cueDesc |-> cueDesc,
                     cuesAt |-> cuesAt, bufferSize |-> bufferSize,
                     out |-> sendCueDataOf(parser, cueDesc, bufferSize)]
  /\ UNCHANGED MainVars

\* The files of three video representations (bandwidth 100, 200, 300 and
\* clusters of 5000, 10000, 20000 bytes per 10 s): loaded with cues at 0, 10
\* and 20 s ("aligned") or at 5, 15 and 25 s ("shifted"), not loaded yet
\* ("needed"), or being loaded ("parsing").
FileKinds == {"aligned", "shifted", "needed", "parsing"}

SwitchFile(kind, id) ==
  LET size == 5000 * (2 ^ (id - 1))
      loaded == [ProjectionParser(<<size, size, size>>) EXCEPT
                   !.parser = TRUE, !.state = "HEADERS_LOADED"]
  IN IF kind = "aligned" THEN loaded
     ELSE IF kind = "shifted"
       THEN [loaded EXCEPT !.cues_ =
               Some([k \in 1..3 |-> [Val(loaded.cues_)[k] EXCEPT !.cueTime = @ + 5]])]
     ELSE IF kind = "needed" THEN NewFile
     ELSE [NewFile EXCEPT !.parser = TRUE, !.state = "PARSING_HEADERS"]

\* The player in LOADING on one of the representations, at its first or its
\* second cue, the list in manifest order.
SwitchPlayersOn(current) ==
  { [list |-> [i \in 1..3 |-> [id |-> order[i], bandwidth |-> 100 * order[i]]],
     files |-> [id \in 1..3 |-> SwitchFile(kinds[id], id)],
     vid |-> [source |-> current,
              cueDesc |-> Some(getCueDescFromCue_(SwitchFile("aligned", current),
                                                  index))],
     state |-> "LOADING"] :
      order \in {<<1, 2, 3>>, <<3, 1, 2>>}, index \in {0, 1},
      kinds \in {k \in [1..3 -> FileKinds] : k[current] = "aligned"} }

SwitchPlayers == UNION {SwitchPlayersOn(current) : current \in 1..3}

switchVideoStreamCall ==
  /\ call.fn = "none"
  /\ \E p \in SwitchPlayers, switchWebM \in {Null} \cup {Some(id) : id \in 1..3} :
       call' = [fn |-> "switchVideoStream", arg |-> p, switchWebM |-> switchWebM,
                out |-> switchVideoStream(p, switchWebM)]
  /\ UNCHANGED MainVars

SwitchRates == {4, 8, 16, 40}

checkVideoStreamFutureTimeCall ==
  /\ call.fn = "none"
  /\ \E p \in SwitchPlayers, bandwidth \in SwitchRates, buffer \in {0, 6} :
       call' = [fn |-> "checkVideoStreamFutureTime", arg |-> p,
                bandwidth |-> bandwidth, buffer |-> buffer,
                out |-> checkVideoStreamFutureTimeOf(p, bandwidth, buffer)]
  /\ UNCHANGED MainVars

\* Results of decoding the file header and the segment headers: decoded in
\* 20 or 30 bytes, more bytes needed, or invalid.
HeaderResults ==
  {[status |-> STATUS_OK, bytesUsed |-> 20], [status |-> STATUS_OK, bytesUsed |-> 30],
   [status |-> STATUS_NEED_MORE_DATA, bytesUsed |-> 0],
   [status |-> STATUS_INVALID_DATA, bytesUsed |-> 0]}

\* One run of doParseHeaders recorded in call: the attempt's number, the
\* ensureSize it was given and the offset the cursor stood at.
Attempt(file, ensureSize, attempt) ==
  \E enough \in BOOLEAN, ebml \in HeaderResults, segment \in HeaderResults :
    LET got == IF enough THEN ensureSize ELSE ensureSize - 1
        r == doParseHeadersOn(file, ensureSize, got, ebml, segment)
    IN call' = [fn |-> "parseHeaders", attempt |-> attempt,
                ensureSize |-> ensureSize, started |-> getCurrentOffset(file),
                enough |-> enough, ebml |-> ebml, segment |-> segment,
                out |-> r.out, file |-> r.file, next |-> r.next]

\* parseHeaders(doneCallback) on a file whose cursor stands at the start of
\* the resource or further in, nothing buffered.
parseHeadersCall ==
  /\ call.fn = "none"
  /\ \E offset \in {0, 300} :
       Attempt([fileOffset_ |-> offset, index_ |-> 0, buffer_ |-> Null], 4096, 1)
  /\ UNCHANGED MainVars

\* The timer doParseHeaders set for its retry.
doParseHeadersRetry ==
  /\ call.fn = "parseHeaders"
  /\ call.out = "retry"
  /\ call.attempt <= MaxRetries
  /\ Attempt(call.file, Val(call.next), call.attempt + 1)
  /\ UNCHANGED MainVars

CallNext ==
  \/ resetStreamDataCall
  \/ squishCuesCall
  \/ getCueIndexFromTimeCall
  \/ getCueDescFromOffsetCall
  \/ getCueDescFromCueCall
  \/ parseNumCall
  \/ parseElementHeaderCall
  \/ bufferSizeAfterTimeCall
  \/ canSeekCall
  \/ parseSegmentHeadersCall
  \/ setSegmentOffsetCall
  \/ setDurationCall
  \/ fetchCuesCall
  \/ fetchCuesUnbufferedCall
  \/ parseListCall
  \/ doParseHeadersCall
  \/ parseFirstHeadersUnbufferedCall
  \/ parseFirstHeadersCall
  \/ findVideoLowsetBandwidthCall
  \/ loadHeaderCall
  \/ loadIndexCall
  \/ loadExtraDataParallelCall
  \/ sendCueDataCall
  \/ switchVideoStreamCall
  \/ checkVideoStreamFutureTimeCall
  \/ parseHeadersCall
  \/ doParseHeadersRetry

CallSpec == CallInit /\ [][CallNext]_vars


\* --------------------------------------------------- playing without a seek
\* A third specification: the presentation has been opened, every header and
\* index has been parsed, and from then on every cluster fetch succeeds and
\* no event of the video element arrives.  Each track's file holds its own
\* cue points: audio and video clusters need not start at the same times.
TrackCues ==
  { <<[cueTime |-> 0, cueClusterPos |-> 100], [cueTime |-> 10, cueClusterPos |-> 120],
      [cueTime |-> 20, cueClusterPos |-> 140]>>,
    <<[cueTime |-> 0, cueClusterPos |-> 100], [cueTime |-> 50, cueClusterPos |-> 150]>> }

\* A file whose loadExtraDataParallel has completed with the cue points l.
LoadedFile(img, l) ==
  [parseSegmentHeaders([NewFile EXCEPT !.parser = TRUE], img) EXCEPT
     !.cues_ = Some(l), !.state = "HEADERS_LOADED"]

\* The controller when the last of the header and index requests has been
\* answered: onParseHeadersDone(true) has appended the initialization blob
\* and loadFirstClusters has issued the first fetches.
Opened(kind, vidImg, audImg, vidCues, audCues) ==
  LET m0 == initializeFirstStreams_(
              [state |-> "STOPPED", seq |-> 0, seekTime |-> 0, S |-> EmptyMap,
               files |-> EmptyMap, loads |-> NoLoads,
               inflight |-> [tr \in Tracks |-> <<>>],
               timers |-> [startSeek |-> 0, sendPartialClusters |-> 0],
               src |-> "open", calls |-> <<>>, blob |-> Null, reports |-> 0,
               pushed |-> FALSE], kind)
      files == IF kind = "audioVideo"
                 THEN ("video" :> LoadedFile(vidImg, vidCues))
                      @@ ("audio" :> LoadedFile(audImg, audCues))
                 ELSE ("video" :> LoadedFile(vidImg, vidCues))
  IN onParseHeadersDone([m0 EXCEPT !.files = files], TRUE)

PlayInit ==
  /\ player = "dash"
  /\ manifest \in {"videoOnly", "audioVideo"}
  /\ openEvents = 0
  /\ webm = <<>>
  /\ call = [fn |-> "none"]
  /\ \E vidCues \in TrackCues, audCues \in TrackCues,
        vidImg \in ImagesFor("video", manifest = "audioVideo"),
        audImg \in ImagesFor("audio", manifest = "audioVideo") :
       LET m == Opened(manifest, vidImg, audImg, vidCues, audCues)
       IN /\ state = m.state
          /\ seekSequenceNum = m.seq
          /\ seekTime = m.seekTime
          /\ adaptiveStreams_ = m.S
          /\ webMFilesMap_ = m.files
          /\ loads = m.loads
          /\ inflight = m.inflight
          /\ timers = m.timers
          /\ sourceState = m.src
          /\ sink = [receiveAll([initAppends |-> 0, initBlob |-> Null,
                                 clusterAppended |-> FALSE,
                                 clusterBeforeInit |-> FALSE, eosNoError |-> 0,
                                 eosDecodeErr |-> 0, reports |-> 0], m.calls)
                       EXCEPT !.initBlob = m.blob]
          /\ step = [op |-> "onParseHeadersDone", from |-> "PARSING_HEADERS",
                     calls |-> m.calls, pushed |-> FALSE, fetch |-> Null,
                     sought |-> "none"]

PlayNext ==
  \/ \E tr \in Tracks : FetchDelivered(tr)
  \/ SendPartialClustersTimer

\* Every fetch is answered and every timer callback runs.
PlaySpec == PlayInit /\ [][PlayNext]_vars /\ WF_vars(PlayNext)


\* ------------------------------------------- loading the other representations
\* A fourth specification: the loader of the sibling representations, from
\* the timer loadFirstClusters sets.  call holds what it works on: list (the
\* representationList of the video adaptation set), files (webMFilesMap_, by
\* id), pending (downloadAllMediaInfo timers not yet run) and loading (the
\* ids whose loadHeader has a request outstanding).
onDownloadHeadersDone(L) == [L EXCEPT !.pending = @ + 1]

\* The loop of downloadAllMediaInfo from list position i on.  A loadHeader
\* that rejects the representation calls back before it returns.
RECURSIVE downloadAllMediaInfoLoop(_, _)
downloadAllMediaInfoLoop(L, i) ==
  IF i > Len(L.list) THEN L
  ELSE LET id == L.list[i].id
       IN IF L.files[id].state # "HEADERS_NEEDED"
            THEN downloadAllMediaInfoLoop(L, i + 1)
            ELSE LET r == loadHeader(L.files[id], L.list[i])
                     L1 == [L EXCEPT !.files[id] = r.file]
                 IN IF r.requests = 0 THEN onDownloadHeadersDone(L1)
                    ELSE [L1 EXCEPT !.loading = @ \cup {id}]

downloadAllMediaInfo(L) == downloadAllMediaInfoLoop(L, 1)

\* The callbacks of loadHeader once its header request is answered:
\* parseFirstHeaders failed, the index range is missing, or fetchCues and
\* onLoadHeader ended with success or with failure.
onLoadHeaderDone(L, id, success) ==
  LET rep == L.list[CHOOSE i \in 1..Len(L.list) : L.list[i].id = id]
  IN onDownloadHeadersDone(
       [L EXCEPT !.files[id].state = IF success /\ rep.index THEN "HEADERS_LOADED"
                                     ELSE "ERROR",
                 !.loading = @ \ {id}])

\* What the manifest says of a sibling: complete, or lacking its index
\* range, its header range or its url.
SiblingKinds ==
  { [url |-> TRUE, header |-> TRUE, index |-> TRUE],
    [url |-> TRUE, header |-> TRUE, index |-> FALSE],
    [url |-> TRUE, header |-> FALSE, index |-> TRUE],
    [url |-> FALSE, header |-> TRUE, index |-> TRUE] }

\* loadFirstClusters has run on representation 1 and set the timer; the
\* adaptation set has NumSiblings more representations.
LoadFirstClustersDone ==
  /\ call.fn = "none"
  /\ \E kinds \in [2..(NumSiblings + 1) -> SiblingKinds] :
       call' = [fn |-> "downloadAllMediaInfo",
                list |-> [i \in 1..(NumSiblings + 1) |->
                            IF i = 1
                              THEN [id |-> 1, url |-> TRUE, header |-> TRUE,
                                    index |-> TRUE, duration |-> FileDuration]
                              ELSE [id |-> i, url |-> kinds[i].url,
                                    header |-> kinds[i].header,
                                    index |-> kinds[i].index,
                                    duration |-> FileDuration]],
                files |-> [i \in 1..(NumSiblings + 1) |->
                             IF i = 1 THEN [NewFile EXCEPT !.state = "HEADERS_LOADED",
                                                           !.parser = TRUE]
                             ELSE NewFile],
                pending |-> 1, loading |-> {}]
  /\ UNCHANGED MainVars

DownloadAllMediaInfoTimer ==
  /\ call.fn = "downloadAllMediaInfo"
  /\ call.pending > 0
  /\ call' = downloadAllMediaInfo([call EXCEPT !.pending = @ - 1])
  /\ UNCHANGED MainVars

HeaderLoadDone ==
  /\ call.fn = "downloadAllMediaInfo"
  /\ \E id \in call.loading, success \in BOOLEAN :
       call' = onLoadHeaderDone(call, id, success)
  /\ UNCHANGED MainVars

LoaderNext ==
  \/ LoadFirstClustersDone
  \/ DownloadAllMediaInfoTimer
  \/ HeaderLoadDone

\* Every timer callback runs and every request is answered.
LoaderSpec == CallInit /\ [][LoaderNext]_vars /\ WF_vars(LoaderNext)

\* ------------------------------------------------------------------ claims
Calls(kind, what) ==
  \E i \in 1..Len(step.calls) : step.calls[i].kind = kind /\ step.calls[i].what = what

FetchCompleted == step.op \in {"fetchDelivered", "clusterFetched"}

\* C1: a cluster fetch issued under sequence number N whose completion runs
\* when the sequence number is no longer N does not push its buffer into the
\* cluster queue (DashPlayer, either track, and WebMPlayer).
C1_StaleFetchNotQueued ==
  (FetchCompleted /\ Val(step.fetch).seqNum # seekSequenceNum) => ~step.pushed

\* A completion that found the player LOADING with a newer sequence number: the
\* sequence check alone kept the buffer out.
C1_Witness ==
  /\ player = "dash"
  /\ step.op = "fetchDelivered"
  /\ step.from = "LOADING"
  /\ Val(step.fetch).seqNum # seekSequenceNum
  /\ adaptiveStreams_[Val(step.fetch).track].clusterQueue = <<>>

\* The same for WebMPlayer.
C1_WitnessWebM ==
  /\ player = "webm"
  /\ step.op = "clusterFetched"
  /\ step.from = "LOADING"
  /\ Val(step.fetch).seqNum # seekSequenceNum

\* C2: per track at most one cluster fetch is in flight, and the track's
\* fetchingClusters_ flag is set for as long as the fetch is owed its callback.
C2_OneFetchPerTrack ==
  \A tr \in Tracks :
    /\ Len(inflight[tr]) <= 1
    /\ inflight[tr] # <<>> =>
         (tr \in DOMAIN adaptiveStreams_ /\ adaptiveStreams_[tr].fetchingClusters_)

\* Both tracks are fetching after a seek, with an emission callback pending.
C2_Witness ==
  /\ Len(inflight["video"]) = 1
  /\ Len(inflight["audio"]) = 1
  /\ seekSequenceNum > 0
  /\ timers.sendPartialClusters > 0

\* C3: when DashPlayer signals normal end of stream, every active track has
\* endOfClusters_ set and an empty cluster queue.
C3_EndOfStreamWhenDrained ==
  (player = "dash" /\ Calls("eos", "EOS_NO_ERROR")) =>
    \A tr \in DOMAIN adaptiveStreams_ :
      adaptiveStreams_[tr].endOfClusters_ /\ adaptiveStreams_[tr].clusterQueue = <<>>

\* End of stream after both tracks' clusters were appended.
C3_Witness ==
  /\ player = "dash"
  /\ Calls("eos", "EOS_NO_ERROR")
  /\ "audio" \in DOMAIN adaptiveStreams_
  /\ sink.clusterAppended
  /\ state = "LOADING"

\* Nothing is owed to DashPlayer: no request or cluster fetch is outstanding
\* and no timer is pending, so only an event of the video element can run next.
NothingOwed ==
  /\ timers.startSeek = 0
  /\ timers.sendPartialClusters = 0
  /\ \A tr \in Tracks :
       /\ inflight[tr] = <<>>
       /\ loads.header[tr] # "pending"
       /\ loads.cues[tr] # "pending"

\* C4: a cluster fetch that fails while the player is LOADING leads to the
\* ERROR state and to the sink being told EOS_DECODE_ERR: once the failure
\* has been handled and nothing more is owed, both have happened.
C4_FailedFetchReported ==
  (step.op = "fetchFailed" /\ step.from = "LOADING" /\ NothingOwed)
    => (state = "ERROR" /\ sink.eosDecodeErr > 0)

\* C5: after one open the sink is told EOS_DECODE_ERR at most once, however
\* many requests fail.
C5_DecodeErrorToldOnce == sink.eosDecodeErr <= 1

\* C5 as stated: reportParseError is performed at most once.
C5_ReportedOnce == sink.reports <= 1

\* A second failure reached reportParseError after the sink had been told.
C5_Witness ==
  /\ sink.reports = 2
  /\ sink.eosDecodeErr = 1
  /\ step.op \in {"headerFailed", "cuesFailed"}

AppendCalled == \E i \in 1..Len(step.calls) : step.calls[i].kind = "append"

\* C6: a callback that finds the player in ERROR appends nothing and does not
\* signal EOS_NO_ERROR.
C6_NothingAfterError ==
  (step.from = "ERROR" /\ step.op \in {"sendPartialClusters", "fetchDelivered"})
    => (~AppendCalled /\ ~Calls("eos", "EOS_NO_ERROR"))

\* C7: the ERROR state is left only by doClose, to STOPPED.
C7_ErrorLeftOnlyByClose ==
  step.from = "ERROR" =>
    \/ state = "ERROR"
    \/ state = "STOPPED" /\ step.op = "doClose"

\* C8: the initialization data is appended once, and no cluster before it.
C8_InitOnceAndFirst == sink.initAppends <= 1 /\ ~sink.clusterBeforeInit

SingleContainer == player = "webm" \/ manifest = "videoOnly"

ResourceRead ==
  IF player = "webm" THEN webm.parser.resource
  ELSE webMFilesMap_[adaptiveStreams_["video"].source].resource

\* C9: with a single container the initialization data appended is the Info
\* element's bytes followed by the Tracks element's bytes, as they stand in the
\* resource.
C9_InitIsInfoThenTracks ==
  (SingleContainer /\ Calls("append", "init")) =>
    /\ ~IsNull(sink.initBlob)
    /\ ~IsNull(ResourceRead)
    /\ Val(sink.initBlob) =
         Slice(Val(ResourceRead).bytes, Val(ResourceRead).info)
           \o Slice(Val(ResourceRead).bytes, Val(ResourceRead).tracks)

\* DashPlayer with one representation has just appended its initialization data.
C9_Witness ==
  /\ player = "dash"
  /\ manifest = "videoOnly"
  /\ Calls("append", "init")
  /\ Len(Val(sink.initBlob)) = 4

\* WebMPlayer has just appended its initialization data.
C9_WitnessWebM ==
  /\ player = "webm"
  /\ Calls("append", "init")
  /\ Len(Val(sink.initBlob)) = 6

\* C10: a file is HEADERS_LOADED only when its header request and its index
\* request have both succeeded, and is in ERROR once either has failed.
C10_HeadersLoadedAfterBoth ==
  \A tr \in DOMAIN adaptiveStreams_ :
    LET f == webMFilesMap_[adaptiveStreams_[tr].source]
    IN /\ f.state = "HEADERS_LOADED" =>
            (loads.header[tr] = "ok" /\ loads.cues[tr] = "ok")
       /\ (loads.header[tr] = "failed" \/ loads.cues[tr] = "failed") =>
            f.state = "ERROR"

\* The header request finished last and the file became HEADERS_LOADED, while
\* the other track's index request had failed.
C10_Witness ==
  /\ step.op = "headerLoaded"
  /\ "audio" \in DOMAIN adaptiveStreams_
  /\ webMFilesMap_[adaptiveStreams_["video"].source].state = "HEADERS_LOADED"
  /\ webMFilesMap_[adaptiveStreams_["audio"].source].state = "ERROR"
  /\ loads.cues["audio"] = "failed"
  /\ loads.header["audio"] = "ok"

\* C11: within one seek epoch the sink is told EOS_NO_ERROR at most once.
\* Before the first seek every such call belongs to the same epoch.
C11_EndOfStreamOncePerEpoch ==
  (seekSequenceNum = 0 /\ state = "LOADING") => sink.eosNoError <= 1

\* C12: in every stream the cue-descriptor queue and the cluster queue have
\* the same length.
C12_QueuesInLockStep ==
  \A tr \in DOMAIN adaptiveStreams_ :
    Len(adaptiveStreams_[tr].clusterQueue) = Len(adaptiveStreams_[tr].cueDescQueue)

\* sendPartialClusters has just popped a video cluster while another one and
\* an audio cluster are still queued.
C12_Witness ==
  /\ step.op = "sendPartialClusters"
  /\ Calls("append", "video")
  /\ "audio" \in DOMAIN adaptiveStreams_
  /\ Len(adaptiveStreams_["video"].clusterQueue) = 1
  /\ Len(adaptiveStreams_["audio"].cueDescQueue) >= 1

\* C13: between two seek resets a stream's lastTimeSent_ never decreases:
\* no run of sendPartialClusters, the only place that pops, lowers it.
C13_WatermarkNeverDecreases ==
  [][step'.op = "sendPartialClusters" =>
       \A tr \in DOMAIN adaptiveStreams_ :
         adaptiveStreams_'[tr].lastTimeSent_ >= adaptiveStreams_[tr].lastTimeSent_]_vars

\* C14: resetStreamData empties both queues, clears fetchingClusters_ and
\* endOfClusters_, and leaves source and clusterQueueThreshold as they were.
C14_ResetKeepsSourceAndThreshold ==
  call.fn = "resetStreamData" =>
    /\ call.out.cueDescQueue = <<>>
    /\ call.out.clusterQueue = <<>>
    /\ ~call.out.fetchingClusters_
    /\ ~call.out.endOfClusters_
    /\ call.out.source = call.arg.source
    /\ call.out.clusterQueueThreshold = call.arg.clusterQueueThreshold

\* C15: an audio cluster is handed to the sink only if the video stream is at
\* end of clusters and empty, or the cluster's cue starts no later than the
\* video stream's lastTimeSent_, both as sendPartialClusters finds them.
C15_AudioBehindVideo ==
  [][(step'.op = "sendPartialClusters" /\ "audio" \in DOMAIN adaptiveStreams_
        /\ \E i \in 1..Len(step'.calls) :
             step'.calls[i] = [kind |-> "append", what |-> "audio"])
       => LET vid == adaptiveStreams_["video"]
              aud == adaptiveStreams_["audio"]
          IN \/ vid.endOfClusters_ /\ vid.clusterQueue = <<>>
             \/ aud.cueDescQueue[1].time <= vid.lastTimeSent_]_vars

\* An audio cluster went to the sink while video clusters were still queued
\* (so checkFront decided), and further audio is queued behind it.
C15_Witness ==
  /\ step.op = "sendPartialClusters"
  /\ Calls("append", "audio")
  /\ Len(adaptiveStreams_["video"].clusterQueue) >= 1
  /\ Len(adaptiveStreams_["audio"].clusterQueue) >= 1

\* C16: squishCues is idempotent: a second call leaves the list the first
\* call produced.
C16_SquishIdempotent ==
  call.fn = "squishCues" => call.again = call.out

\* A list with three cue points at one offset, squished to fewer entries.
C16_Witness ==
  /\ call.fn = "squishCues"
  /\ Len(call.arg) = 4
  /\ \E i \in 1..2 : /\ call.arg[i].cueClusterPos = call.arg[i + 1].cueClusterPos
                     /\ call.arg[i].cueClusterPos = call.arg[i + 2].cueClusterPos
  /\ Len(call.out) = 2

OffsetsUnique(l) ==
  \A i, j \in 1..Len(l) : l[i].cueClusterPos = l[j].cueClusterPos => i = j

\* The entries of out are entries of l, in l's order, and each is the
\* earliest entry of l with its offset.
KeepsEarliestInOrder(l, out) ==
  /\ \A i \in 1..Len(out) : \E k \in 1..Len(l) : out[i] = l[k]
  /\ \A i \in 1..(Len(out) - 1) : out[i].cueTime < out[i + 1].cueTime
  /\ \A k \in 1..Len(l) : \E i \in 1..Len(out) :
       /\ out[i].cueClusterPos = l[k].cueClusterPos
       /\ out[i].cueTime <= l[k].cueTime

\* Cue points with the same offset stand next to each other.
AliasesAdjacent(l) ==
  \A i, j \in 1..Len(l) :
    (i < j /\ l[i].cueClusterPos = l[j].cueClusterPos) =>
      \A k \in i..j : l[k].cueClusterPos = l[i].cueClusterPos

\* C17 as stated: after squishCues on any cue list the offsets are unique,
\* the order is kept and the earliest entry of each offset survives.
C17_SquishUniqueAnyList ==
  call.fn = "squishCues" =>
    (OffsetsUnique(call.out) /\ KeepsEarliestInOrder(call.arg, call.out))

\* C17: after squishCues on a cue list whose aliasing cue points are
\* adjacent, the offsets are unique, the order is kept and the earliest entry
\* of each offset survives.
C17_SquishUnique ==
  (call.fn = "squishCues" /\ AliasesAdjacent(call.arg)) =>
    (OffsetsUnique(call.out) /\ KeepsEarliestInOrder(call.arg, call.out))

\* Two runs of aliasing cue points collapsed to one entry each.
C17_Witness ==
  /\ call.fn = "squishCues"
  /\ AliasesAdjacent(call.arg)
  /\ Len(call.arg) = 4
  /\ Len(call.out) = 2
  /\ call.out[2].cueTime = 20

Ordered(l, key) == \A i, j \in 1..Len(l) : i < j => l[i][key] <= l[j][key]

\* 0-based index of the rightmost entry whose key is <= target, 0 when the
\* target is below the first entry.
RightmostAtMost(l, key, target) ==
  IF target < l[1][key] THEN 0
  ELSE CHOOSE i \in 0..(Len(l) - 1) :
         /\ l[i + 1][key] <= target
         /\ \A j \in (i + 2)..Len(l) : l[j][key] > target

\* C18: on a non-empty cue list ordered by time the search by time returns
\* the rightmost cue with time <= target, index 0 for a target below the
\* first cue and the last index for a target at or beyond the last cue; the
\* search by offset does the same on a list ordered by offset.
C18_SearchFindsRightmost ==
  /\ (call.fn = "getCueIndexFromTime_" /\ Ordered(call.arg, "cueTime")) =>
       /\ call.out = RightmostAtMost(call.arg, "cueTime", call.target)
       /\ call.target < call.arg[1].cueTime => call.out = 0
       /\ call.target >= call.arg[Len(call.arg)].cueTime => call.out = Len(call.arg) - 1
  /\ (call.fn = "getCueDescFromOffset" /\ Ordered(call.arg, "cueClusterPos")) =>
       LET i == RightmostAtMost(call.arg, "cueClusterPos", call.target)
       IN /\ call.out.time = call.arg[i + 1].cueTime
          /\ call.out.offset = call.arg[i + 1].cueClusterPos
          /\ call.target < call.arg[1].cueClusterPos => call.out.time = 0
          /\ call.target >= call.arg[Len(call.arg)].cueClusterPos =>
               call.out.time = call.arg[Len(call.arg)].cueTime

\* A search by time in a list of four cues for a target between the second
\* and the third.
C18_Witness ==
  /\ call.fn = "getCueIndexFromTime_"
  /\ Len(call.arg) = 4
  /\ call.target = 15
  /\ call.out = 1

\* 1-based position of the first cue point after position i whose offset
\* differs from that of i, Len(l) + 1 when there is none.
NextDistinct(l, i) ==
  IF \E j \in (i + 1)..Len(l) : l[j].cueClusterPos # l[i].cueClusterPos
    THEN CHOOSE j \in (i + 1)..Len(l) :
           /\ l[j].cueClusterPos # l[i].cueClusterPos
           /\ \A k \in (i + 1)..(j - 1) : l[k].cueClusterPos = l[i].cueClusterPos
    ELSE Len(l) + 1

\* C19 as stated: the descriptor of cue i runs to the next cue with a
\* different offset, and for the last cluster to the start of the Cues
\* element and to the duration.
C19_DescriptorToCuesStart ==
  call.fn = "getCueDescFromCue_" =>
    LET l == call.arg
        i == call.index + 1
        j == NextDistinct(l, i)
    IN IF j <= Len(l)
         THEN /\ call.out.size = l[j].cueClusterPos - l[i].cueClusterPos
              /\ call.out.endTime = l[j].cueTime
         ELSE /\ call.out.size = call.cuesAt - l[i].cueClusterPos
              /\ call.out.endTime = call.duration

\* C19: the descriptor of cue i runs to the next cue with a different
\* offset; for the last cluster its end time is the duration and its size
\* runs to the start of the Cues element when that lies beyond the cluster,
\* and is -1 (unknown) otherwise.
C19_DescriptorDerivation ==
  call.fn = "getCueDescFromCue_" =>
    LET l == call.arg
        i == call.index + 1
        j == NextDistinct(l, i)
    IN /\ call.out.time = l[i].cueTime
       /\ call.out.offset = l[i].cueClusterPos
       /\ IF j <= Len(l)
            THEN /\ call.out.size = l[j].cueClusterPos - l[i].cueClusterPos
                 /\ call.out.endTime = l[j].cueTime
            ELSE /\ call.out.size = IF call.cuesAt > l[i].cueClusterPos
                                      THEN call.cuesAt - l[i].cueClusterPos
                                      ELSE -1
                 /\ call.out.endTime = call.duration

\* Offsets 100, 100, 250, 400 with the Cues element at 500: the descriptor of
\* the first cue skips its alias (size 150), that of the last cue has size 100.
C19_Witness ==
  /\ call.fn = "getCueDescFromCue_"
  /\ Len(call.arg) = 4
  /\ call.arg[1].cueClusterPos = 100 /\ call.arg[2].cueClusterPos = 100
  /\ call.arg[3].cueClusterPos = 250 /\ call.arg[4].cueClusterPos = 400
  /\ call.cuesAt = 500
  /\ \/ call.index = 0 /\ call.out.size = 150 /\ call.out.endTime = 20
     \/ call.index = 3 /\ call.out.size = 100

\* C20 as stated: an ID or a size decoded from fewer bytes than its encoding
\* has, none included, is reported as needing exactly the missing bytes.
C20_DeficitIsExact ==
  (call.fn = "parseNum_" /\ call.avail < Len(call.arg)) =>
    /\ call.out.status = STATUS_NEED_MORE_DATA
    /\ call.out.bytesNeeded = Len(call.arg) - call.avail

\* C20: an ID or a size decoded from fewer bytes than its encoding has is
\* never invalid; it needs more data, exactly the missing bytes when its
\* first byte is there and one byte when nothing is; a header cut inside its
\* ID or its size reports the same for the number it is cut in.
C20_DeficitOnceFirstByteSeen ==
  /\ (call.fn = "parseNum_" /\ call.avail < Len(call.arg)) =>
       /\ call.out.status = STATUS_NEED_MORE_DATA
       /\ call.out.bytesNeeded =
            IF call.avail = 0 THEN 1 ELSE Len(call.arg) - call.avail
  /\ (call.fn = "parseElementHeader" /\ call.avail > 0
        /\ call.avail < Len(call.arg)) =>
       /\ call.out.status = STATUS_NEED_MORE_DATA
       /\ call.out.bytesNeeded =
            IF call.avail < call.idLen THEN call.idLen - call.avail
            ELSE IF call.avail = call.idLen THEN 1
            ELSE Len(call.arg) - call.avail

\* A four-byte ID of which two bytes are there: two more are needed.
C20_Witness ==
  /\ call.fn = "parseNum_"
  /\ call.asId
  /\ Len(call.arg) = 4
  /\ call.avail = 2
  /\ call.out.status = STATUS_NEED_MORE_DATA
  /\ call.out.bytesNeeded = 2

\* C21: with the cue table, the start time, the horizon and the current
\* buffer the same, the buffer projected at the higher download rate is not
\* below the buffer projected at the lower one.
C21_FasterNeverProjectsLess ==
  call.fn = "bufferSizeAfterTime" =>
    ~FLess(call.outHi.buffer, call.outLo.buffer)

\* C22: canSeek answers true exactly when the source has a parser whose cue
\* table is not null and holds at least one cue.
C22_CanSeekIffCuesNonEmpty ==
  call.fn = "canSeek" =>
    (call.out <=> /\ call.arg.parser
                  /\ ~IsNull(call.arg.cues_)
                  /\ Len(Val(call.arg.cues_)) > 0)

\* C23: whichever parser operation runs, a segment offset that was already
\* set (not -1) is the same after the operation.
C23_SegmentOffsetSetOnce ==
  ("before" \in DOMAIN call /\ call.before.segmentOffset_ # -1) =>
    call.parser.segmentOffset_ = call.before.segmentOffset_

\* C24: after parseSegmentHeaders the duration is the one setDuration
\* supplied before, whatever the Info element declares; a duration that was
\* set before the parse is the duration after it.
C24_SuppliedDurationWins ==
  call.fn = "parseSegmentHeaders" =>
    /\ ~IsNull(call.supplied) => call.parser.duration_ = Val(call.supplied)
    /\ call.before.duration_ # -1 =>
         call.parser.duration_ = call.before.duration_
    /\ call.before.duration_ = -1 =>
         call.parser.duration_ =
           IF Val(call.parser.resource).duration > 0
             THEN Val(call.parser.resource).duration ELSE -1

\* 45 s were supplied, the Info element declares FileDuration, 45 s stay.
C24_Witness ==
  /\ call.fn = "parseSegmentHeaders"
  /\ call.supplied = Some(45)
  /\ Val(call.parser.resource).duration = FileDuration
  /\ call.parser.duration_ = 45

\* 1-based position of the first element with a stop entry, 0 if none.
FirstStop(es) ==
  IF \E k \in 1..Len(es) : es[k].name = "stop"
    THEN CHOOSE k \in 1..Len(es) :
           es[k].name = "stop" /\ \A j \in 1..(k - 1) : es[j].name # "stop"
    ELSE 0

\* What the elements es leave in the accumulator, a later one of a name
\* replacing an earlier one.
RECURSIVE Stored(_)
Stored(es) ==
  IF es = <<>> THEN <<>>
  ELSE LET e == es[Len(es)]
           rest == Stored(SubSeq(es, 1, Len(es) - 1))
       IN IF e.name = "skip" THEN rest ELSE (e.name :> e.data) @@ rest

\* C25: when the walk comes to an element with a stop entry after whole
\* elements of the schema, it ends with STATUS_OK, the bytes used are those
\* of the elements before that element, and the value holds those elements,
\* although the element's payload is not in the buffer.
C25_StopsBeforeSentinel ==
  (/\ call.fn = "parseList_"
   /\ FirstStop(call.arg) > 0
   /\ \A j \in 1..(FirstStop(call.arg) - 1) :
        call.arg[j].name \in {"info", "tracks", "skip"}) =>
    LET before == SubSeq(call.arg, 1, FirstStop(call.arg) - 1)
    IN /\ call.out.status = STATUS_OK
       /\ call.out.bytesUsed = Len(BytesOf(before))
       /\ call.out.value = Stored(before)

\* Info, Tracks, then a Cluster declaring 100 bytes of which one is there:
\* the walk from byte 2 stops after 7 + 6 bytes with both values.
C25_Witness ==
  /\ call.fn = "parseList_"
  /\ call.start = 2
  /\ Len(call.arg) = 3
  /\ call.arg[1].name = "info" /\ call.arg[2].name = "tracks"
  /\ call.arg[3].name = "stop"
  /\ call.out.status = STATUS_OK
  /\ call.out.bytesUsed = 13
  /\ DOMAIN call.out.value = {"info", "tracks"}

\* C26: when the bytes asked for came and the first decoding step that does
\* not succeed, file header or segment headers, needs more data, the load is
\* not reported as failed.
C26_NeedMoreDataNeverFails ==
  (/\ call.fn \in {"doParseHeaders", "parseFirstHeadersUnbuffered"}
   /\ call.got
   /\ \/ call.ebml = STATUS_NEED_MORE_DATA
      \/ call.ebml = STATUS_OK /\ call.segment = STATUS_NEED_MORE_DATA) =>
    call.out # "false"

\* C27: the file returned is that of the representation of least bandwidth
\* among those with a file in the map, in whatever order the list is; none
\* is returned only when no representation has a file.
C27_LowestLoadableBandwidth ==
  call.fn = "findVideoLowsetBandwidth" =>
    IF call.files = {} THEN IsNull(call.out)
    ELSE /\ ~IsNull(call.out)
         /\ Val(call.out) \in call.files
         /\ \A i \in call.files :
              call.arg[Val(call.out)].bandwidth <= call.arg[i].bandwidth

\* C28: a load started on a representation without a url, without a header
\* range or without an index range gives its callback an error, issues no
\* byte-range request and leaves the file as it was.
C28_InvalidRepresentationRejected ==
  (/\ call.fn \in {"loadHeader", "loadIndex", "loadExtraDataParallel"}
   /\ ~(call.rep.url /\ call.rep.header /\ call.rep.index)) =>
    /\ call.out.error
    /\ call.out.requests = 0
    /\ call.out.file = call.arg

\* C29: after a seek received in LOADING the player comes back to LOADING:
\* as long as it is SEEKING, a fetch completion or a timer that will run the
\* reset is still owed to it.
C29_SeekReturnsToLoading ==
  (player = "dash" /\ state = "SEEKING" /\ step.sought = "LOADING") =>
    ~NothingOwed

\* C30: once a file loaded in parallel is HEADERS_LOADED, each of its cues
\* lies where the Cues element says, counted from the start of the Segment
\* payload (byte 40), whichever of the two requests was answered first.
C30_CueOffsetsFromSegmentBase ==
  player = "dash" =>
    \A src \in DOMAIN webMFilesMap_ :
      webMFilesMap_[src].state = "HEADERS_LOADED" =>
        LET cues == Val(webMFilesMap_[src].cues_)
        IN \A i \in 1..Len(cues) :
             \E k \in 1..Len(CueTable) :
               /\ cues[i].cueTime = CueTable[k].cueTime
               /\ cues[i].cueClusterPos = (CueTable[k].cueClusterPos - 40) + 40

\* C31: the descriptor that a fetch of cue descriptor d hands to the
\* completion callback as the next one is null, has d's offset, or lies at a
\* strictly greater byte offset than d; this holds as well for a last cue
\* whose size is unknown (-1).
C31_SuccessorNeverEarlier ==
  (/\ call.fn = "sendCueData_"
   /\ Ordered(call.arg, "cueClusterPos")
   /\ call.out.kind = "callback"
   /\ ~IsNull(call.out.nextCueDesc)) =>
     Val(call.out.nextCueDesc).offset >= call.cueDesc.offset

\* Every track has reached the end of its clusters and the sink has been
\* told the normal end of stream.
PlayedToEnd ==
  /\ \A tr \in DOMAIN adaptiveStreams_ : adaptiveStreams_[tr].endOfClusters_
  /\ sourceState = "ended"
  /\ sink.eosNoError > 0

\* C32: when every fetch succeeds and no seek, close or error occurs, every
\* track eventually reaches the end of its clusters and the sink is
\* eventually told the normal end of stream.
C32_PlaysToEnd == <>PlayedToEnd

\* The cue switchVideoStream locates on the new representation: the one
\* getCueDescFromTime gives for the start time of the current cue.
C33_Located ==
  getCueDescFromTime(call.arg.files[Val(call.switchWebM)],
                     Val(call.arg.vid.cueDesc).time)

C33_MaySwitch ==
  /\ ~IsNull(call.switchWebM)
  /\ Val(call.switchWebM) # call.arg.vid.source
  /\ canSeek(call.arg.files[Val(call.switchWebM)])
  /\ ~IsNull(C33_Located)
  /\ Val(C33_Located).time >= Val(call.arg.vid.cueDesc).time

\* C33: switchVideoStream replaces the video stream's source and cue
\* descriptor together, by the new representation and the cue located on
\* it, and only when that cue starts at or after the current cue's start
\* time; otherwise source and cue descriptor are both left as they were.  In
\* neither case does the controller's state change to ERROR.
C33_SwitchTogetherOrNotAtAll ==
  call.fn = "switchVideoStream" =>
    /\ call.out.p.state = call.arg.state
    /\ call.out.p.state # "ERROR"
    /\ IF C33_MaySwitch
         THEN /\ call.out.p.vid.source = Val(call.switchWebM)
              /\ call.out.p.vid.cueDesc = C33_Located
         ELSE call.out.p.vid = call.arg.vid

\* A switch asked for to a seekable representation whose located cue starts
\* before the current one: source and cue descriptor stay.
C33_Witness ==
  /\ call.fn = "switchVideoStream"
  /\ ~IsNull(call.switchWebM)
  /\ Val(call.switchWebM) # call.arg.vid.source
  /\ canSeek(call.arg.files[Val(call.switchWebM)])
  /\ ~IsNull(C33_Located)
  /\ Val(C33_Located).time < Val(call.arg.vid.cueDesc).time
  /\ call.out.p.vid = call.arg.vid

\* The buffer projected 120 s ahead on representation id for the evaluation
\* recorded in call (Null when its file has no cue table to project on).
Projection(id) ==
  LET node == bufferSizeAfterTime(call.arg.files[id],
                                  Val(call.arg.vid.cueDesc).time, 120,
                                  call.bandwidth, call.buffer)
  IN IF ~call.arg.files[id].parser \/ IsNull(node) THEN Null
     ELSE Some(Val(node).buffer)

ProjectsBelow5(id) == ~IsNull(Projection(id)) /\ FLess(Val(Projection(id)), Whole(5))
ProjectsAtLeast5(id) == ~IsNull(Projection(id)) /\ ~FLess(Val(Projection(id)), Whole(5))
ProjectsAbove15(id) == ~IsNull(Projection(id)) /\ FLess(Whole(15), Val(Projection(id)))

\* Representations of lower and of higher bandwidth than the current one.
LowerThanCurrent == {id \in 1..3 : id < call.arg.vid.source}
HigherThanCurrent == {id \in 1..3 : id > call.arg.vid.source}

\* C34: when the projection at the current representation is below 5 s the
\* evaluation walks down the lower-bandwidth representations, nearest first,
\* and chooses the first whose projection is at least 5 s, or the lowest one
\* when none qualifies; when the projection lies within [5, 15] s it chooses
\* none and switches nothing.
C34_WalksDownToFirstSufficient ==
  call.fn = "checkVideoStreamFutureTime" =>
    IF ProjectsBelow5(call.arg.vid.source)
      THEN IF LowerThanCurrent = {} THEN IsNull(call.out.switchWebM)
           ELSE LET sufficient == {id \in LowerThanCurrent : ProjectsAtLeast5(id)}
                    expected == IF sufficient = {}
                                  THEN CHOOSE id \in LowerThanCurrent :
                                         \A o \in LowerThanCurrent : id <= o
                                  ELSE CHOOSE id \in sufficient :
                                         \A o \in sufficient : id >= o
                IN call.out.switchWebM = Some(expected)
      ELSE ~ProjectsAbove15(call.arg.vid.source) =>
             /\ IsNull(call.out.switchWebM)
             /\ call.out.p = call.arg

\* C34 for evaluations in which every lower-bandwidth representation has its
\* cue table loaded.
C34_WhenLowerLoaded ==
  (/\ call.fn = "checkVideoStreamFutureTime"
   /\ \A id \in LowerThanCurrent : ~IsNull(Projection(id))) =>
    C34_WalksDownToFirstSufficient

\* C35: when the projection at the current representation is above 15 s the
\* evaluation looks at the nearest higher-bandwidth representation only: it
\* chooses that one exactly when its own projection is above 15 s too, and
\* the video stream ends on the current representation or on that one,
\* never further up.
C35_UpOneStepOnly ==
  (call.fn = "checkVideoStreamFutureTime" /\ ProjectsAbove15(call.arg.vid.source)) =>
    IF HigherThanCurrent = {}
      THEN IsNull(call.out.switchWebM) /\ call.out.p = call.arg
      ELSE LET nearest == CHOOSE id \in HigherThanCurrent :
                            \A o \in HigherThanCurrent : id <= o
           IN /\ call.out.switchWebM =
                   (IF ProjectsAbove15(nearest) THEN Some(nearest) ELSE Null)
              /\ call.out.p.vid.source \in {call.arg.vid.source, nearest}
              /\ call.out.p.vid.source = nearest => ProjectsAbove15(nearest)

\* From the lowest representation, with both higher ones projecting above
\* 15 s, the stream has moved to the middle one.
C35_Witness ==
  /\ call.fn = "checkVideoStreamFutureTime"
  /\ call.arg.vid.source = 1
  /\ ProjectsAbove15(1)
  /\ ProjectsAbove15(2)
  /\ ProjectsAbove15(3)
  /\ call.out.switchWebM = Some(2)
  /\ call.out.p.vid.source = 2

\* The loader has come to rest: no file of the adaptation set is
\* HEADERS_NEEDED, no load is outstanding and no timer is pending.
LoaderAtRest ==
  /\ call.fn = "downloadAllMediaInfo"
  /\ \A id \in DOMAIN call.files : call.files[id].state # "HEADERS_NEEDED"
  /\ call.loading = {}
  /\ call.pending = 0

\* C36: the loader of the sibling representations has at most one load
\* outstanding at any time, and when every load is answered it eventually
\* leaves no representation HEADERS_NEEDED and schedules itself no more.
C36_LoaderOneAtATimeAndEnds ==
  /\ [](call.fn = "downloadAllMediaInfo" => Cardinality(call.loading) <= 1)
  /\ <>[]LoaderAtRest

\* The first half of C36 alone.
C36_OneLoadAtATime ==
  call.fn = "downloadAllMediaInfo" => Cardinality(call.loading) <= 1

\* C37: the first attempt of parseHeaders asks for 4096 bytes and each
\* further one for twice as many as the one before; an attempt whose
\* segment-header parse needs more data puts the cursor back at the offset
\* the attempt started from and schedules the retry with twice its size.
C37_RetryDoublesFromStart ==
  call.fn = "parseHeaders" =>
    /\ call.ensureSize = 4096 * (2 ^ (call.attempt - 1))
    /\ (/\ call.enough
        /\ call.ebml.status = STATUS_OK
        /\ call.segment.status = STATUS_NEED_MORE_DATA) =>
         /\ call.out = "retry"
         /\ getCurrentOffset(call.file) = call.started
         /\ call.next = Some(2 * call.ensureSize)

\* The third attempt (16384 bytes) still needs more data.
C37_Witness ==
  /\ call.fn = "parseHeaders"
  /\ call.attempt = 3
  /\ call.ensureSize = 16384
  /\ call.started = 300
  /\ call.out = "retry"
  /\ call.next = Some(32768)

\* ---- C38
\* The bytes of a size encoding with the length marker cleared from the
\* first one: the big-endian digits of the unsigned value it encodes.
PayloadDigits(enc) ==
  [k \in 1..Len(enc) |-> IF k = 1 THEN enc[1] - 2 ^ (8 - Len(enc)) ELSE enc[k]]

\* The L big-endian base-256 digits of a non-negative number.
DigitsOf(value, L) == [k \in 1..L |-> ShiftRight8(value, L - k) % 256]

\* C38: decoding a complete size encoding of length L returns bytesUsed = L
\* and the unsigned big-endian value of its L bytes with the length marker
\* cleared, whatever the value, values of 2^31 and above included.
C38_DecodesUnsignedValue ==
  (call.fn = "parseNum_" /\ ~call.asId /\ call.avail = Len(call.arg))
    => /\ call.out.status = STATUS_OK
       /\ call.out.bytesUsed = Len(call.arg)
       /\ call.out.value >= 0
       /\ DigitsOf(call.out.value, Len(call.arg)) = PayloadDigits(call.arg)

\* What holds: the length is always right, and the value is right when the
\* encoded number is below 2^31.
C38_Below2Pow31 ==
  \A k \in 1..Len(call.arg) :
    PayloadDigits(call.arg)[k] # 0
      => /\ k > Len(call.arg) - 4
         /\ (k = Len(call.arg) - 3 => PayloadDigits(call.arg)[k] < 128)

C38_DecodesValuesBelow2Pow31 ==
  (call.fn = "parseNum_" /\ ~call.asId /\ call.avail = Len(call.arg))
    => /\ call.out.status = STATUS_OK
       /\ call.out.bytesUsed = Len(call.arg)
       /\ (C38_Below2Pow31
             => /\ call.out.value >= 0
                /\ DigitsOf(call.out.value, Len(call.arg))
                     = PayloadDigits(call.arg))

\* ---- C39
\* C39: parseFirstHeaders reports success to its callback only if both the
\* file header and the segment headers decoded with status Ok; an Invalid or
\* NeedMoreData result of the segment headers makes it report failure.
C39_SuccessOnlyWhenBothOk ==
  call.fn = "parseFirstHeaders"
    => /\ (call.out = "true"
             => call.ebml = STATUS_OK /\ call.segment = STATUS_OK)
       /\ (call.segment # STATUS_OK => call.out = "false")

\* What holds: success is reported only after the bytes came and the file
\* header decoded with status Ok.
C39_SuccessOnlyWhenFileHeaderOk ==
  (call.fn = "parseFirstHeaders" /\ call.out = "true")
    => call.got /\ call.ebml = STATUS_OK

\* ---- C40
\* What the claim speaks of: each stream's queues and current cue descriptor.
QueuesAndCueDescs(S) ==
  [tr \in DOMAIN S |-> <<S[tr].clusterQueue, S[tr].cueDescQueue, S[tr].cueDesc>>]

\* C40: a startSeek that runs after the seek has completed (the controller
\* is in Loading) changes neither the stream queues nor the current cue
\* descriptors.
C40_RedundantStartSeekIsNoOp ==
  [][(player = "dash" /\ state = "LOADING" /\ step'.op = "startSeek")
       => QueuesAndCueDescs(adaptiveStreams_') = QueuesAndCueDescs(adaptiveStreams_)]_vars

\* What holds: a startSeek that finds a fetch of either stream outstanding
\* changes nothing of the streams, whatever the controller's state.
C40_StartSeekWaitsForFetches ==
  [][(/\ player = "dash"
      /\ step'.op = "startSeek"
      /\ \E tr \in DOMAIN adaptiveStreams_ : adaptiveStreams_[tr].fetchingClusters_)
       => adaptiveStreams_' = adaptiveStreams_]_vars

====
